---- MODULE Spec2Model ----
(***************************************************************************)
(* Trust-and-control plane of the ROOT camera firmware: the pairing        *)
(* helper (pkg/pairing/helper.go), its HTTP and BLE carriers, the device   *)
(* registry with timed removal (package devices), the config store         *)
(* (pkg/config/config.go) and the encrypted command router                 *)
(* (pkg/relaycomm/handlers.go).                                            *)
(*                                                                         *)
(* Time is counted in minutes and kept relative to the present: a stored   *)
(* time.Time (a code's ExpiresAt, a timer's deadline) is the number of     *)
(* minutes from time.Now() to it, negative once it has passed, and the     *)
(* passing of a minute lowers every stored time by one.                    *)
(* A value that Go holds in a pointer or an (value, ok) pair is a sequence *)
(* of length 0 (nil / absent) or 1.                                        *)
(***************************************************************************)
EXTENDS Integers, Sequences, FiniteSets, Bags, TLC

\* ------------------------------------------------------------------------
\* Bounds of the model
\* ------------------------------------------------------------------------
\* a time more than MaxPast minutes ago is kept as MaxPast minutes ago
MaxPast == 1

MaxWriteFailures == 1

\* timers of ScheduleKick that exist at one time (armed, or fired with the
\* callback still to run)
MaxTimers == 2

\* connect loops of the relay client that exist at one time
MaxLoops == 2

\* non-empty reads followed per StreamReader
MaxChunks == 2

\* pingLoop goroutines told apart
MaxPings == 2

\* ------------------------------------------------------------------------
\* Program constants
\* ------------------------------------------------------------------------
codeExpiry == 5

kickDelay == 5

KeySize == 32

maxViewers == 3

\* seconds a connect loop sleeps before it dials again
reconnectDelay == 5

\* gcm.NonceSize() and the length of the tag gcm.Seal appends, in bytes
NonceSize == 12

\* globals.MaxBootAttempts
MaxBootAttempts == 3

TagSize == 16

\* time.Now(): the origin of the relative time scale
now == 0

\* ------------------------------------------------------------------------
\* Input domains
\* ------------------------------------------------------------------------
DeviceIds == {"d1", "d2"}

\* values randomInt can return (two of the 10^6 six-digit codes)
Codes == {1, 2}

\* private scalars rand.Read can produce in GenerateKeypair
Scalars == {1, 2}

\* the pairing carriers: the HTTP /pair endpoint and the BLE pair
\* characteristic; each runs PairDevice in a task of its own
Callers == {"http", "ble"}

\* 32-byte strings a device can present as its public key.  X25519 reads a
\* public key as a curve point: 0 is a low-order point, 3 is a second
\* encoding of the point of 1 (X25519 masks the top bit of the last byte),
\* 2 is another point.
Encodings == {0, 1, 2, 3}

Point(e) == IF e = 3 THEN 1 ELSE e

KeyLens == {KeySize - 1, KeySize, KeySize + 1}

\* ------------------------------------------------------------------------
\* package encryption
\* ------------------------------------------------------------------------
\* GenerateKeypair: the public key of private scalar k (a point no device
\* key encodes)
BasePoint(k) == 10 + k

GenerateKeypair(k) ==
    [PrivateKey |-> [len |-> KeySize, enc |-> k],
     PublicKey  |-> [len |-> KeySize, enc |-> BasePoint(k)]]

\* curve25519.X25519(priv, pub): the all-zero output for a low-order point
X25519(priv, pub) == IF Point(pub.enc) = 0 THEN <<0, 0>> ELSE <<priv.enc, Point(pub.enc)>>

\* DeriveSharedSecret: <<>> on error, else <<key>> (HKDF is injective here)
DeriveSharedSecret(yourPrivateKey, theirPublicKey) ==
    IF yourPrivateKey.len # KeySize \/ theirPublicKey.len # KeySize THEN <<>>
    ELSE IF X25519(yourPrivateKey, theirPublicKey) = <<0, 0>> THEN <<>>
    ELSE << [len |-> KeySize, k |-> X25519(yourPrivateKey, theirPublicKey)] >>

\* FromSharedSecret: <<>> on error, else the session (its key)
FromSharedSecret(sharedSecret) ==
    IF sharedSecret.len # KeySize THEN <<>> ELSE << sharedSecret.k >>

\* len(plaintext): the plaintext that is not JSON is the empty one, the
\* shortest JSON document has two bytes
Size(plaintext) == IF plaintext.json THEN 2 ELSE 0

\* A string handed to Decrypt is [wire, size, key, plain]: the base64
\* text (wire) of the first size bytes of nonce || GCM(key, plain) || tag,
\* or text that is not base64 (wire = FALSE).
\* Session.Encrypt: the nonce is drawn at random and is not followed
Encrypt(session, plaintext) ==
    [wire |-> TRUE, size |-> NonceSize + Size(plaintext) + TagSize,
     key |-> session, plain |-> plaintext]

\* gcm.Open: the tag is checked over the whole of what gcm.Seal wrote
GcmOpen(session, payload) ==
    IF payload.size = NonceSize + Size(payload.plain) + TagSize /\ payload.key = session
    THEN << payload.plain >>
    ELSE <<>>

\* a Decrypt that accepts a payload sealed under any key
C1_DecryptAnyKey(session, payload) ==
    IF payload.wire THEN << payload.plain >> ELSE <<>>

\* a Decrypt that takes a sealed empty plaintext for too short
C17_StrictLength(session, payload) ==
    IF ~payload.wire THEN <<>>
    ELSE IF payload.size <= NonceSize + TagSize THEN <<>>
    ELSE GcmOpen(session, payload)

\* Session.Decrypt: <<>> on error, else the plaintext
Decrypt(session, payload) ==
    IF ~payload.wire THEN <<>>
    ELSE IF payload.size < NonceSize THEN <<>>
    ELSE GcmOpen(session, payload)

\* a DecodePublicKey without "if len(key) != 32"
C7_AnyLength(encoded) ==
    IF ~encoded.b64 THEN <<>> ELSE << encoded.key >>

\* DecodePublicKey: <<>> on error, else the 32 bytes
DecodePublicKey(encoded) ==
    IF ~encoded.b64 THEN <<>>
    ELSE IF encoded.key.len # KeySize THEN <<>>
    ELSE << encoded.key >>

EncodePublicKey(publicKey) == [b64 |-> TRUE, key |-> publicKey]

\* ------------------------------------------------------------------------
\* State
\* ------------------------------------------------------------------------
VARIABLES
    code,         \* Pairing.code: <<>> (nil) or <<[Code, ExpiresAt]>>
    mu,           \* Pairing.mu is held
    inPair,       \* per carrier: the call inside PairDevice past the code check
    data,         \* Config.data: the in-memory config map
    file,         \* content of the config file (last successful save)
    failures,     \* number of failed writes of the config file so far
    timers,       \* the time.AfterFunc timers of Devices.ScheduleKick (a bag)
    pairsOnCode,  \* history: successful pairs against the current Pairing.code
    msg,          \* the message read from the relay socket or the HTTP request
                  \* accepted, whose handler has not run yet: <<>> or <<m>>
    res,          \* result of the last finished call, as its caller sees it
    replies,      \* the relay frames the last step sent, in order
    tasks,        \* where each goroutine that writes to the socket stands
    viewers,      \* relaycomm.viewers: the device IDs the map holds
    streaming,    \* Recorder.streaming
    recording,    \* Recorder.recording
    readers,      \* per stream, the newest StreamReader goroutine: position,
                  \* chunkIndex and the messages it has emitted so far
    running,      \* RelayComm.running
    stopChan,     \* RelayComm.stopChan: "nil", "open" or "closed"
    conn,         \* RelayComm.conn: 0 (nil) or the socket it points to
    loops,        \* the connectLoop goroutines: position, domain argument,
                  \* seconds of time.Sleep left, socket ReadJSON blocks on
    socks,        \* the websocket connections dialed: domain, open or not
    starting,     \* per caller of Start: <<>> or <<domain>> once the call is
                  \* past its checks and before it sets running
    booted,       \* main is past its relay start
    reachable,    \* the relay server accepts connections
    pings,        \* the pingLoop goroutines running (MaxPings: that many or more)
    updater,      \* Updater.status and, per caller, where its StartUpdate stands
    boot          \* the boot medium and the boot in progress: root= of
                  \* cmdline.txt, the partition booted, bootcount.txt, the
                  \* phase of the boot

\* the state of pairing, registry, config and router
coreVars == <<code, mu, inPair, data, file, failures, timers, pairsOnCode, msg>>

\* the state of the stream fan-out and the recorder
streamVars == <<viewers, streaming, recording, readers>>

\* the state of the relay client
relayVars == <<running, stopChan, conn, loops, socks, starting, booted, reachable, tasks>>

\* the state outside pairing, registry, config and router
\* the state of the updater and of the boot watchdog
hostVars == <<updater, boot>>

farVars == <<streamVars, relayVars, hostVars, pings>>

sideVars == <<farVars, replies>>

vars == <<coreVars, res, sideVars>>

\* a step that hands no frame to RelayComm.Send
Silent == replies' = <<>>

Device(id, publicKey) == [id |-> id, publicKey |-> publicKey]

\* the value is a []byte, as SetKey stored it; what load read back from the
\* JSON file is the base64 string
IsBytes(value) == "len" \in DOMAIN value

EmptyConfig ==
    [cameraPrivateKey |-> <<>>, cameraPublicKey |-> <<>>, connectedDevices |-> <<>>,
     relayUrl |-> <<>>, relayDomain |-> <<>>]

Result(op, r, v) == [op |-> op, r |-> r, v |-> v]

\* ------------------------------------------------------------------------
\* package config
\* ------------------------------------------------------------------------
\* Config.GetKey: connectedDevices is the stored list (absent reads as the
\* empty list in Devices.getDevices); the other keys are <<>> when absent
GetKey(key) == data[key]

\* Config.SetKey: the map after c.data[key] = value
SetKey(d, key, value) == [d EXCEPT ![key] = value]

\* Config.save: the file after the write, which succeeds (ok) or fails
save(d, f, ok) == IF ok THEN d ELSE f

\* the writes that may still fail within the failure bound
WriteOutcomes(n) == {oks \in [1..n -> BOOLEAN] :
                        failures + Cardinality({i \in 1..n : ~oks[i]}) <= MaxWriteFailures}

Failed(oks) == Cardinality({i \in DOMAIN oks : ~oks[i]})

\* ------------------------------------------------------------------------
\* package devices
\* ------------------------------------------------------------------------
getDevices == GetKey("connectedDevices")

IDs(devs) == {devs[i].id : i \in DOMAIN devs}

\* Devices.GetByID: <<>> or <<device>> (the first record with that ID)
GetByID(id) ==
    IF \E i \in DOMAIN getDevices : getDevices[i].id = id
    THEN << getDevices[CHOOSE i \in DOMAIN getDevices :
                 /\ getDevices[i].id = id
                 /\ \A j \in DOMAIN getDevices : getDevices[j].id = id => i <= j] >>
    ELSE <<>>

\* the loop "filtered = every dev with dev.ID != id"
Filtered(devs, id) == SelectSeq(devs, LAMBDA dev : dev.id # id)

\* an Add that appends without "Remove if already exists"
C8_AppendOnly(devs, id, publicKey) == Append(devs, Device(id, publicKey))

\* Devices.Add: the list written to connectedDevices
AddList(devs, id, publicKey) == Append(Filtered(devs, id), Device(id, publicKey))

\* a timer of ScheduleKick: armed until its deadline, then fired (its
\* callback waits for Devices.mu); inMap: kickTimers[id] is this timer;
\* removed (history): Devices.Remove(id) has returned since ScheduleKick
\* created this timer
Timer(id, deadline, st, inMap, removed) ==
    [id |-> id, deadline |-> deadline, st |-> st, inMap |-> inMap, removed |-> removed]

TimerSet == BagToSet(timers)

One(t) == SetToBag({t})

Mapped(id) == {t \in TimerSet : t.id = id /\ t.inMap}

\* timer.Stop() on kickTimers[id]: an armed timer never fires; a timer that
\* has fired is not stopped and its callback still runs
StopMapped(id) ==
    LET armed == {t \in Mapped(id) : t.st = "armed"}
    IN  IF armed = {} THEN timers ELSE timers (-) SetToBag(armed)

\* delete(kickTimers, id): the fired timer id still maps to leaves the map
Unmap(bag, id) ==
    LET m == {t \in BagToSet(bag) : t.id = id /\ t.inMap}
    IN  IF m = {} THEN bag
        ELSE (bag (-) SetToBag(m)) (+)
             SetToBag({Timer(t.id, t.deadline, t.st, FALSE, t.removed) : t \in m})

\* Devices.Remove: the timers afterwards
RemoveTimers(id) ==
    BagOfAll(LAMBDA t : Timer(t.id, t.deadline, t.st, t.inMap, t.removed \/ t.id = id),
             Unmap(StopMapped(id), id))

\* a ScheduleKick whose timer runs a minute longer than kickDelay
C9_LateKick(id) ==
    Unmap(StopMapped(id), id) (+) One(Timer(id, now + kickDelay + 1, "armed", TRUE, FALSE))

\* Devices.ScheduleKick: timers afterwards.  The earlier timer is stopped
\* but its map entry is overwritten, not deleted: a fired earlier timer
\* leaves the map because the entry now names the new timer
ScheduleKickTimers(id) ==
    Unmap(StopMapped(id), id) (+) One(Timer(id, now + kickDelay, "armed", TRUE, FALSE))

\* ------------------------------------------------------------------------
\* Inputs of the handlers
\* ------------------------------------------------------------------------
\* the devicePublicKey field of a pair request: base64 text of some bytes,
\* or text that is not base64
EncodedKeys ==
    {[b64 |-> TRUE, key |-> [len |-> KeySize, enc |-> e]] : e \in Encodings}
    \cup {[b64 |-> TRUE, key |-> [len |-> l, enc |-> 1]] : l \in KeyLens \ {KeySize}}
    \cup {[b64 |-> FALSE, key |-> [len |-> KeySize, enc |-> 1]]}

PairRequests == [deviceId : DeviceIds, code : Codes, devicePublicKey : EncodedKeys]

\* decrypted payloads: JSON with a deviceId (and a targetDeviceId, read by
\* kickDevice only), or bytes that are not JSON
Plains ==
    [json : {TRUE}, deviceId : DeviceIds, targetDeviceId : DeviceIds]
    \cup {[json |-> FALSE, deviceId |-> "d1", targetDeviceId |-> "d1"]}

\* the keys a payload can be sealed under
SessionKeys == {<<s, p>> : s \in Scalars, p \in {1, 2}}

\* text that is not base64
NotBase64(plaintext) == [wire |-> FALSE, size |-> 0, key |-> <<1, 1>>, plain |-> plaintext]

Payloads ==
    {Encrypt(k, pl) : k \in SessionKeys, pl \in Plains}
    \cup {NotBase64(CHOOSE pl \in Plains : ~pl.json)}

Types == {"getDevices", "removeDevice", "kickDevice"}

\* relay messages: the outer frame parses into an EncryptedRequest or not
Envelopes ==
    [type : Types, parses : {TRUE}, deviceId : DeviceIds, encryptedPayload : Payloads]
    \cup [type : Types, parses : {FALSE}, deviceId : {"d1"},
          encryptedPayload : {CHOOSE pl \in Payloads : ~pl.wire}]

\* bodies of POST /set-wifi and /set-relay: the decrypted payload carries a
\* deviceId and the setting (one relay URL, one network)
RelayUrls == {"a.example"}

HttpPlains ==
    [json : {TRUE}, deviceId : DeviceIds, relayUrl : RelayUrls]
    \cup {[json |-> FALSE, deviceId |-> "d1", relayUrl |-> "a.example"]}

HttpPayloads ==
    {Encrypt(k, pl) : k \in SessionKeys, pl \in HttpPlains}
    \cup {NotBase64(CHOOSE pl \in HttpPlains : ~pl.json)}

Paths == {"/set-wifi", "/set-relay"}

HttpRequests ==
    [path : Paths, parses : {TRUE}, deviceId : DeviceIds, encryptedPayload : HttpPayloads]
    \cup [path : Paths, parses : {FALSE}, deviceId : {"d1"},
          encryptedPayload : {CHOOSE pl \in HttpPayloads : ~pl.wire}]

\* ------------------------------------------------------------------------
\* package pairing: helper.go
\* ------------------------------------------------------------------------
\* time.Now().After(ExpiresAt)
Expired(c) == now > c.ExpiresAt

\* a GetCode that generates a code on every call
C30_AlwaysNew == TRUE

\* the condition of "if b.code == nil || time.Now().After(...)" in GetCode
NeedsNewCode == code = <<>> \/ Expired(code[1])

\* the condition of "Verify code" in PairDevice
CodeRejected(submitted) ==
    code = <<>> \/ code[1].Code # submitted \/ Expired(code[1])

\* a PairDevice that generates a keypair on every call
C6_AlwaysGenerate == TRUE

\* "cameraPublicKey, ok := GetKey(...); if !ok": first pairing
NeedsKeypair == GetKey("cameraPublicKey") = <<>>

\* a Pairing without its mutex
C3_NoMutex == TRUE

\* sync.Mutex.Lock of Pairing.mu can proceed
CanLock == ~mu

\* "b.code = nil" after a successful Add
Invalidated == <<>>

\* the bytes rand.Read can put in b[0..3], and the width of int of the
\* build (GOARCH=arm in deploy.sh: 32)
ByteValues == {0, 1, 127, 128, 255}

RandomBytes == [1..4 -> ByteValues]

IntBits == {32, 64}

\* "int(b[0]) | int(b[1])<<8 | int(b[2])<<16 | int(b[3])<<24" as an int of
\* the given width: with 32 bits, bit 7 of b[3] is the sign bit
Assemble(b, bits) ==
    LET low  == b[1] + b[2] * 256 + b[3] * 65536
        high == IF bits = 32 /\ b[4] >= 128 THEN b[4] - 256 ELSE b[4]
    IN  [low |-> low, high |-> high]

\* Go's n % d for d > 0: the remainder has the sign of n
Rem(n, d) == IF n >= 0 \/ (n % d) = 0 THEN n % d ELSE (n % d) - d

\* randomInt(min, max).  The value is low + high * 2^24; it is negative only
\* with 32 bits, where it fits the int and "n = -n" wraps for the least int;
\* with 64 bits the remainder is computed from the two parts
randomInt(b, bits, min, max) ==
    LET a == Assemble(b, bits)
        d == max - min + 1
    IN  IF bits = 32
        THEN LET n   == a.low + a.high * 16777216
                 abs == IF n < 0 /\ n # -2147483647 - 1 THEN 0 - n ELSE n
             IN  min + Rem(abs, d)
        ELSE min + ((a.low + a.high * (16777216 % d)) % d)

\* the decimal digits of n >= 0, zero-padded on the left to width w
RECURSIVE Digits(_, _)
Digits(n, w) ==
    IF n = 0 /\ w <= 0 THEN <<>>
    ELSE Append(Digits(n \div 10, w - 1),
                << "0", "1", "2", "3", "4", "5", "6", "7", "8", "9" >>[(n % 10) + 1])

\* fmt.Sprintf("%06d", n): the sign counts in the width
Sprintf06d(n) == IF n >= 0 THEN Digits(n, 6) ELSE << "-" >> \o Digits(0 - n, 5)

\* Pairing.GetCode, called by GET /get-code and by the BLE get-code read
GetCode(c) ==
    /\ CanLock
    /\ IF NeedsNewCode
       THEN /\ code' = << [Code |-> c, ExpiresAt |-> now + codeExpiry] >>
            /\ pairsOnCode' = 0
       ELSE /\ UNCHANGED <<code, pairsOnCode>>
    /\ res' = Result("getCode", "ok", << code'[1].Code >>)
    /\ UNCHANGED <<mu, inPair, data, file, failures, timers, msg>>

\* the /pair endpoint and the BLE pair write up to the code check of
\* PairDevice: DecodePublicKey, Lock, "Verify code"
PairDevice(p, req) ==
    /\ inPair[p] = <<>>
    /\ IF DecodePublicKey(req.devicePublicKey) = <<>>
       THEN /\ res' = Result("pair", "InvalidKey", <<>>)
            /\ UNCHANGED <<mu, inPair>>
       ELSE /\ CanLock
            /\ IF CodeRejected(req.code)
               THEN /\ res' = Result("pair", "InvalidCode", <<>>)
                    /\ UNCHANGED <<mu, inPair>>
               ELSE /\ mu' = TRUE
                    /\ inPair' = [inPair EXCEPT ![p] =
                          << [deviceID |-> req.deviceId,
                              devicePublicKey |-> DecodePublicKey(req.devicePublicKey)[1]] >>]
                    /\ UNCHANGED res
    /\ UNCHANGED <<code, data, file, failures, timers, pairsOnCode, msg>>

\* the rest of PairDevice: camera keypair, devices.Add, invalidate, Unlock.
\* k is the scalar rand.Read yields if a keypair is generated; oks are the
\* outcomes of the config writes (two for a new keypair, one for Add)
PairCommit(p, k, oks) ==
    /\ inPair[p] # <<>>
    /\ LET call == inPair[p][1]
           fresh == NeedsKeypair
           kp == GenerateKeypair(k)
           d1 == IF fresh THEN SetKey(data, "cameraPrivateKey", << kp.PrivateKey >>) ELSE data
           f1 == IF fresh THEN save(d1, file, oks[1]) ELSE file
           d2 == IF fresh THEN SetKey(d1, "cameraPublicKey", << kp.PublicKey >>) ELSE data
           f2 == IF fresh THEN save(d2, f1, oks[2]) ELSE file
           cameraPublicKey == d2.cameraPublicKey[1]
           d3 == SetKey(d2, "connectedDevices",
                        AddList(d2.connectedDevices, call.deviceID, call.devicePublicKey))
           f3 == save(d3, f2, oks[3])
       IN  /\ fresh \/ (oks[1] /\ oks[2])
           /\ data' = d3
           /\ file' = f3
           /\ failures' = failures + Failed(oks)
           /\ IF oks[3]
              THEN /\ code' = Invalidated
                   /\ pairsOnCode' = pairsOnCode + 1
                   /\ res' = IF IsBytes(cameraPublicKey)
                             THEN Result("pair", "ok", << EncodePublicKey(cameraPublicKey) >>)
                             ELSE Result("pair", "panic", <<>>)
              ELSE /\ res' = Result("pair", "failed to add device", <<>>)
                   /\ UNCHANGED <<code, pairsOnCode>>
    /\ mu' = FALSE
    /\ inPair' = [inPair EXCEPT ![p] = <<>>]
    /\ UNCHANGED <<timers, msg>>

\* ------------------------------------------------------------------------
\* package relaycomm: handlers.go
\* ------------------------------------------------------------------------
\* a frame handed to RelayComm.Send: its type, whether its payload is
\* sealed under the caller's session, and the error it reports or "success"
Reply(type, encrypted, body) == [type |-> type, encrypted |-> encrypted, body |-> body]

\* Get().Send(messageType+"Result", {success: false, error}): a reply of the
\* message's own result type, written "{type}Result", in the clear
SendPlain(error) == Reply("{type}Result", FALSE, error)

\* SendEncrypted(ctx, messageType, payload)
SendEncrypted(type, body) == Reply(type, TRUE, body)

\* a router that derives the key of the first registered device for every
\* sender
C26_OneKeyForAll(device) ==
    DeriveSharedSecret(GetKey("cameraPrivateKey")[1], getDevices[1].publicKey)

\* the shared secret useEncryption derives for a registered device
SecretFor(device) == DeriveSharedSecret(GetKey("cameraPrivateKey")[1], device.publicKey)

\* a router without the identity check
C2_NoIdentityCheck(plain, env) == FALSE

\* "if payloadCheck.DeviceID != req.DeviceID"
IDMismatch(plain, env) == plain.deviceId # env.deviceId

\* useEncryption: "handled" when the handler is called, "panic" when the
\* type assertion cameraPrivateKey.([]byte) fails, else the error text of
\* the reply
useEncryption(env) ==
    IF ~env.parses THEN "Invalid request format!"
    ELSE LET device == GetByID(env.deviceId) IN
    IF device = <<>> THEN "Device not paired!"
    ELSE IF GetKey("cameraPrivateKey") = <<>> THEN "Camera not initialized!"
    ELSE IF ~IsBytes(GetKey("cameraPrivateKey")[1]) THEN "panic"
    ELSE LET sharedSecret == SecretFor(device[1]) IN
    IF sharedSecret = <<>> THEN "Failed to derive encryption key!"
    ELSE LET session == FromSharedSecret(sharedSecret[1]) IN
    IF session = <<>> THEN "Failed to create encryption session!"
    ELSE LET decrypted == Decrypt(session[1], env.encryptedPayload) IN
    IF decrypted = <<>> THEN "Failed to decrypt payload!"
    ELSE IF ~decrypted[1].json THEN "Invalid payload format!"
    ELSE IF IDMismatch(decrypted[1], env) THEN "Device ID mismatch!"
    ELSE "handled"

\* a handleRemoveDevice that removes the device the payload names
C12_RemoveNamed(ctxDeviceID, plain) == plain.targetDeviceId

\* the device handleRemoveDevice removes: ctx.DeviceID
RemoveTarget(ctxDeviceID, plain) == ctxDeviceID

\* buildResult(err, nil)
buildResult(ok) == IF ok THEN "success" ELSE "write failed"

\* handleGetDevices
handleGetDevices(env) ==
    /\ res' = Result("relay", "handled", << "success" >>)
    /\ replies' = << SendEncrypted("devicesResult", "success") >>
    /\ UNCHANGED <<data, file, failures, timers>>

\* handleRemoveDevice with Devices.Remove
handleRemoveDevice(env, ok) ==
    LET id == RemoveTarget(env.deviceId, env.encryptedPayload.plain)
    IN  /\ ok \/ failures < MaxWriteFailures
        /\ timers' = RemoveTimers(id)
        /\ data' = SetKey(data, "connectedDevices", Filtered(getDevices, id))
        /\ file' = save(data', file, ok)
        /\ failures' = IF ok THEN failures ELSE failures + 1
        /\ res' = Result("relay", "handled", << buildResult(ok) >>)
        /\ replies' = << SendEncrypted("removeDeviceResult", buildResult(ok)) >>

\* a handleKickDevice without the self check
C13_NoSelfCheck(target, ctxDeviceID) == FALSE

\* "if req.TargetDeviceID == ctx.DeviceID"
KickSelf(target, ctxDeviceID) == target = ctxDeviceID

\* handleKickDevice with Devices.ScheduleKick
handleKickDevice(env) ==
    LET target == env.encryptedPayload.plain.targetDeviceId
    IN  IF KickSelf(target, env.deviceId)
        THEN /\ res' = Result("relay", "handled", << "Cannot kick self!" >>)
             /\ replies' = << SendEncrypted("kickDeviceResult", "Cannot kick self!") >>
             /\ UNCHANGED <<data, file, failures, timers>>
        ELSE /\ BagCardinality(StopMapped(target)) < MaxTimers
             /\ timers' = ScheduleKickTimers(target)
             /\ res' = Result("relay", "handled", << "success" >>)
             /\ replies' = << SendEncrypted("kickDeviceResult", "success") >>
             /\ UNCHANGED <<data, file, failures>>

\* one relay message through the handler RegisterHandlers installed for
\* its type; ok is the outcome of the config write of Remove
RelayMessage(env, ok) ==
    /\ LET outcome == useEncryption(env) IN
       IF outcome # "handled"
       THEN /\ ok
            /\ res' = Result("relay", outcome, <<>>)
            /\ replies' = IF outcome = "panic" THEN <<>> ELSE << SendPlain(outcome) >>
            /\ UNCHANGED <<data, file, failures, timers>>
       ELSE CASE env.type = "getDevices"   -> ok /\ handleGetDevices(env)
              [] env.type = "removeDevice" -> handleRemoveDevice(env, ok)
              [] env.type = "kickDevice"   -> ok /\ handleKickDevice(env)
    /\ UNCHANGED <<code, mu, inPair, pairsOnCode>>

\* ------------------------------------------------------------------------
\* package pairing: server.go
\* ------------------------------------------------------------------------
\* withEncryption, for a POST request: "handled" when the endpoint's
\* handler is called, else the error text of the response
withEncryption(req) ==
    IF ~req.parses THEN "Invalid request!"
    ELSE LET device == GetByID(req.deviceId) IN
    IF device = <<>> THEN "Device not paired!"
    ELSE IF GetKey("cameraPrivateKey") = <<>> THEN "Camera not initialized!"
    ELSE LET sharedSecret == SecretFor(device[1]) IN
    IF sharedSecret = <<>> THEN "Failed to derive key!"
    ELSE LET session == FromSharedSecret(sharedSecret[1]) IN
    IF session = <<>> THEN "Failed to create session!"
    ELSE LET decrypted == Decrypt(session[1], req.encryptedPayload) IN
    IF decrypted = <<>> THEN "Failed to decrypt payload!"
    ELSE IF ~decrypted[1].json THEN "Invalid payload format!"
    ELSE IF IDMismatch(decrypted[1], req) THEN "Device ID mismatch!"
    ELSE "handled"

\* the /set-wifi handler: wifi.Connect succeeds or not (connected)
handleSetWifi(req, connected) ==
    /\ res' = Result("http", "handled", << IF connected THEN "success" ELSE "connect failed" >>)
    /\ UNCHANGED <<data, file, failures>>

\* the /set-relay handler
handleSetRelay(req, ok) ==
    IF GetKey("relayUrl") # <<>> /\ GetKey("relayUrl")[1] # ""
    THEN /\ ok
         /\ res' = Result("http", "handled", << "Relay URL already configured!" >>)
         /\ UNCHANGED <<data, file, failures>>
    ELSE /\ ok \/ failures < MaxWriteFailures
         /\ data' = SetKey(data, "relayUrl", << req.encryptedPayload.plain.relayUrl >>)
         /\ file' = save(data', file, ok)
         /\ failures' = IF ok THEN failures ELSE failures + 1
         /\ res' = Result("http", "handled", << buildResult(ok) >>)

\* one POST to /set-wifi or /set-relay; ok is the outcome of wifi.Connect
\* or of the config write
HttpRequest(req, ok) ==
    /\ LET outcome == withEncryption(req) IN
       IF outcome # "handled"
       THEN /\ ok
            /\ res' = Result("http", outcome, <<>>)
            /\ UNCHANGED <<data, file, failures>>
       ELSE CASE req.path = "/set-wifi"  -> handleSetWifi(req, ok)
              [] req.path = "/set-relay" -> handleSetRelay(req, ok)
    /\ UNCHANGED <<code, mu, inPair, timers, pairsOnCode>>

\* ------------------------------------------------------------------------
\* package relaycomm: the viewer set; package record
\* ------------------------------------------------------------------------
\* the devices whose HandlerContext a stream handler can receive
ViewerIds == {"d1", "d2", "d3", "d4"}

\* an addViewer that lets one viewer more in
C14_OffByOne(n) == n > maxViewers

\* "if len(viewers) >= maxViewers"
ViewerLimit(n) == n >= maxViewers

\* addViewer, under viewersMu
addViewer(id) ==
    /\ IF ViewerLimit(Cardinality(viewers))
       THEN /\ res' = Result("addViewer", "viewer limit reached", << id >>)
            /\ UNCHANGED viewers
       ELSE /\ viewers' = viewers \cup {id}
            /\ res' = Result("addViewer", "ok", << id >>)
    /\ Silent /\ UNCHANGED <<coreVars, streaming, recording, readers>>

\* removeViewer, under viewersMu: returns len(viewers) == 0
removeViewer(id) ==
    /\ viewers' = viewers \ {id}
    /\ res' = Result("removeViewer", IF viewers' = {} THEN "last" ELSE "more", << id >>)
    /\ Silent /\ UNCHANGED <<coreVars, streaming, recording, readers>>

\* Recorder.StartStream: the error text, or "ok"; started: ffmpeg starts
StartStream(started) ==
    IF streaming THEN "already streaming"
    ELSE IF ~started THEN "failed to start video stream"
    ELSE "ok"

\* Recorder.StartRecording: started: ffmpeg starts
StartRecording(started) ==
    /\ res' = Result("startRecording",
                     IF recording THEN "already recording"
                     ELSE IF streaming THEN "camera in use (streaming)"
                     ELSE IF ~started THEN "failed to start recording"
                     ELSE "ok", <<>>)
    /\ recording' = (recording \/ res'.r = "ok")
    /\ Silent /\ UNCHANGED <<coreVars, viewers, streaming, readers>>

\* Recorder.StopRecording
StopRecording ==
    /\ recording' = FALSE
    /\ res' = Result("stopRecording", "ok", <<>>)
    /\ Silent /\ UNCHANGED <<coreVars, viewers, streaming, readers>>

Readers == {"video", "audio"}

\* a StreamReader goroutine that has not been started, and one at its
\* first Read: "chunkIndex := 0"
NoReader == [pc |-> "off", chunkIndex |-> 0, out |-> <<>>]

NewReader == [NoReader EXCEPT !.pc = "reading"]

NoReaders == [e \in Readers |-> NoReader]

\* a reader that counts every Read, empty or not
C34_CountEveryRead(chunkIndex, n) == chunkIndex + 1

\* "if n > 0 { ...; chunkIndex++ }"
NextIndex(chunkIndex, n) == IF n > 0 THEN chunkIndex + 1 ELSE chunkIndex

\* one turn of the loop of StreamReader for stream e: reader.Read returns n
\* bytes and err ("nil", "EOF" or "error"); a non-empty read emits a chunk,
\* EOF the done message, and an error makes StreamReader return it to the
\* goroutine of handleStartStream, which emits the error message
ReaderRead(e, n, err) ==
    LET r      == readers[e]
        chunk  == [success |-> TRUE, done |-> FALSE, chunkIndex |-> r.chunkIndex]
        out1   == IF n > 0 THEN Append(r.out, chunk) ELSE r.out
        closed == [success |-> err = "EOF", done |-> TRUE]
    IN  /\ r.pc = "reading"
        /\ n = 0 \/ r.chunkIndex < MaxChunks
        /\ readers' = [readers EXCEPT ![e] =
                          [pc         |-> IF err = "nil" THEN "reading" ELSE "returned",
                           chunkIndex |-> NextIndex(r.chunkIndex, n),
                           out        |-> IF err = "nil" THEN out1 ELSE Append(out1, closed)]]
        /\ res' = Result("StreamReader", err, << e >>)
        /\ Silent /\ UNCHANGED <<coreVars, viewers, streaming, recording>>

\* handleStartStream for the authenticated device id: an active recording
\* is killed unless a stream is running; the reply is an error, or the
\* chunks of the stream sent to id alone, read by a new StreamReader for the
\* video and one for the audio (the microphone is enabled unless configured
\* otherwise)
handleStartStream(id, started) ==
    /\ res' = Result("startStream", StartStream(started), << id >>)
    /\ streaming' = (streaming \/ res'.r = "ok")
    /\ recording' = (recording /\ streaming)
    /\ readers' = IF res'.r = "ok" THEN [e \in Readers |-> NewReader] ELSE readers
    /\ replies' = IF res'.r = "ok" THEN <<>>
                  ELSE << SendEncrypted("startStreamResult", res'.r) >>
    /\ UNCHANGED <<coreVars, viewers>>

\* handleStopStream with Recorder.StopStream
handleStopStream(id) ==
    /\ streaming' = FALSE
    /\ res' = Result("stopStream", "ok", << id >>)
    /\ replies' = << SendEncrypted("stopStreamResult", "success") >>
    /\ UNCHANGED <<coreVars, viewers, recording, readers>>

\* handleWiFiScan; ok: wifi.Scan succeeds
handleWiFiScan(env, ok) ==
    /\ res' = Result("relay", "handled", << buildResult(ok) >>)
    /\ replies' = << SendEncrypted("wifiScanResult", buildResult(ok)) >>
    /\ UNCHANGED <<coreVars, farVars>>

\* handleWiFiConnect; fits: json.Unmarshal of the payload into the request
\* struct succeeds ("if err != nil { return }"); ok: wifi.Connect succeeds
handleWiFiConnect(env, fits, ok) ==
    /\ res' = Result("relay", "handled", IF fits THEN << buildResult(ok) >> ELSE <<>>)
    /\ replies' = IF fits THEN << SendEncrypted("wifiConnectResult", buildResult(ok)) >>
                  ELSE <<>>
    /\ UNCHANGED <<coreVars, farVars>>

\* handleSendAudioChunk: the chunk goes to the speaker, or the handler
\* returns early; no path sends a reply
handleSendAudioChunk(env, fits) ==
    /\ res' = Result("relay", "handled", <<>>)
    /\ replies' = <<>>
    /\ UNCHANGED <<coreVars, farVars>>

\* the "if err := json.Unmarshal(payload, &req); err != nil { return }" of
\* handleRemoveDevice and handleKickDevice
ReturnEarly(env) ==
    /\ res' = Result("relay", "handled", <<>>)
    /\ replies' = <<>>
    /\ UNCHANGED <<coreVars, farVars>>

\* the message types of RegisterHandlers whose handlers are modelled
CommandTypes ==
    Types \cup {"wifiScan", "wifiConnect", "startStream", "stopStream", "sendAudioChunk"}

\* the messages of every modelled type, their payloads sealed for a camera
\* whose private scalar is 1, or not base64; a kick names d1
Commands ==
    {[env EXCEPT !.type = type] :
        env \in {e \in Envelopes : /\ e.encryptedPayload.key[1] = 1
                                   /\ e.encryptedPayload.plain.targetDeviceId = "d1"},
        type \in CommandTypes}

\* what can happen inside the handler of a type: <<fits, ok, started>>, of
\* which a handler reads only some
HandlerRuns(type) ==
    CASE type \in {"getDevices", "stopStream"}    -> {<<TRUE, TRUE, TRUE>>}
      [] type \in {"kickDevice", "sendAudioChunk"} -> {<<TRUE, TRUE, TRUE>>, <<FALSE, TRUE, TRUE>>}
      [] type = "wifiScan"                         -> {<<TRUE, TRUE, TRUE>>, <<TRUE, FALSE, TRUE>>}
      [] type = "startStream"                      -> {<<TRUE, TRUE, TRUE>>, <<TRUE, TRUE, FALSE>>}
      [] type \in {"removeDevice", "wifiConnect"}  ->
             {<<TRUE, TRUE, TRUE>>, <<TRUE, FALSE, TRUE>>, <<FALSE, TRUE, TRUE>>}

\* one relay message of any registered type, through useEncryption and its
\* handler.  fits: the decrypted JSON unmarshals into the handler's request
\* struct (it does not when a field has another JSON type); ok: the
\* handler's config write, scan or connect succeeds; started: ffmpeg starts
Command(env, fits, ok, started) ==
    IF useEncryption(env) # "handled"
    THEN RelayMessage(env, TRUE) /\ UNCHANGED <<msg, farVars>>
    ELSE CASE env.type = "getDevices"     -> RelayMessage(env, TRUE) /\ UNCHANGED <<msg, farVars>>
           [] env.type \in {"removeDevice", "kickDevice"} ->
                  IF fits THEN RelayMessage(env, ok) /\ UNCHANGED <<msg, farVars>>
                  ELSE ReturnEarly(env)
           [] env.type = "wifiScan"       -> handleWiFiScan(env, ok)
           [] env.type = "wifiConnect"    -> handleWiFiConnect(env, fits, ok)
           [] env.type = "startStream"    -> handleStartStream(env.deviceId, started)
                                                /\ UNCHANGED <<relayVars, hostVars, pings>>
           [] env.type = "stopStream"     -> handleStopStream(env.deviceId)
                                                /\ UNCHANGED <<relayVars, hostVars, pings>>
           [] env.type = "sendAudioChunk" -> handleSendAudioChunk(env, fits)

\* ------------------------------------------------------------------------
\* package relaycomm: the relay client
\* ------------------------------------------------------------------------
\* The relay client counts time in seconds, in the Sleep each loop has left.
RelayDomains == {"a.example", "b.example"}

\* main at boot, and the BLE set-relay write handler
Starters == {"main", "ble"}

LoopIds == 1..MaxLoops

\* a loop blocks on one socket and RelayComm.conn points to one
SockIds == 1..(MaxLoops + 1)

\* retried and stopped are history: the loop has slept after a failure,
\* Stop has been called since the loop started
NoLoop == [pc |-> "none", dom |-> "", wait |-> 0, sock |-> 0, retried |-> FALSE, stopped |-> FALSE]

NewLoop(dom) == [NoLoop EXCEPT !.pc = "select", !.dom = dom]

\* a connect loop that returns after a failure
C20_GiveUp(loop) == NoLoop

\* connectLoop after a failed connect or after handleMessages returned:
\* time.Sleep(reconnectDelay), then the next round
Backoff(loop) == [loop EXCEPT !.pc = "sleep", !.wait = reconnectDelay, !.sock = 0, !.retried = TRUE]

NoSock == [used |-> FALSE, dom |-> "", open |-> FALSE]

Live(l) == loops[l].pc # "none"

FreeLoops == {l \in LoopIds : ~Live(l)}

FreeSocks == {k \in SockIds : ~socks[k].used}

Lowest(S) == CHOOSE x \in S : \A y \in S : x <= y

\* a socket that neither RelayComm.conn nor a blocked ReadJSON refers to
\* is out of the client's reach and no longer followed
Collect(sk, lp, c) ==
    [k \in SockIds |-> IF c = k \/ \E l \in LoopIds : lp[l].sock = k THEN sk[k] ELSE NoSock]

\* Start up to its second return: the error it returns, or "ok" when it
\* goes on to set running
StartChecks(d) ==
    IF running THEN "already running"
    ELSE IF d.relayDomain = <<>> THEN "relay domain not configured"
    ELSE "ok"

\* Start, from its entry to the read of the relay domain; d is the config
\* the call sees
StartEnter(c, d) ==
    /\ starting[c] = <<>>
    /\ IF StartChecks(d) = "ok"
       THEN /\ starting' = [starting EXCEPT ![c] = d.relayDomain]
            /\ UNCHANGED res
       ELSE /\ res' = Result("Start", StartChecks(d), << c >>)
            /\ UNCHANGED starting
    /\ UNCHANGED <<running, stopChan, loops>>

\* Start, from "r.running = true" to its return
StartCommit(c) ==
    /\ starting[c] # <<>>
    /\ FreeLoops # {}
    /\ running' = TRUE
    /\ stopChan' = "open"
    /\ loops' = [loops EXCEPT ![Lowest(FreeLoops)] = NewLoop(starting[c][1])]
    /\ starting' = [starting EXCEPT ![c] = <<>>]
    /\ res' = Result("Start", "ok", << c >>)
    /\ UNCHANGED <<conn, socks, booted, reachable>>
    /\ Silent /\ UNCHANGED <<coreVars, tasks, streamVars, hostVars, pings>>

\* main: "if relayURL, ok := GetKey("relayUrl"); ok && relayURL != """
MainStart ==
    /\ ~booted
    /\ booted' = TRUE
    /\ IF GetKey("relayUrl") # <<>> /\ GetKey("relayUrl")[1] # ""
       THEN StartEnter("main", data)
       ELSE UNCHANGED <<res, starting, running, stopChan, loops>>
    /\ UNCHANGED <<conn, socks, reachable>>
    /\ Silent /\ UNCHANGED <<coreVars, tasks, streamVars, hostVars, pings>>

\* the BLE set-relay write handler from its SetKey on: the domain is
\* stored, then the relay client is started
StoreRelayDomain(dom, ok) ==
    /\ ok \/ failures < MaxWriteFailures
    /\ data' = SetKey(data, "relayDomain", << dom >>)
    /\ file' = save(data', file, ok)
    /\ failures' = IF ok THEN failures ELSE failures + 1
    /\ IF ok
       THEN StartEnter("ble", data')
       ELSE /\ starting["ble"] = <<>>
            /\ res' = Result("bleSetRelay", "Failed to save relay config", <<>>)
            /\ UNCHANGED <<starting, running, stopChan, loops>>
    /\ UNCHANGED <<conn, socks, booted, reachable>>
    /\ Silent /\ UNCHANGED <<code, mu, inPair, timers, pairsOnCode, tasks, streamVars, hostVars, pings>>

\* the BLE set-relay write handler, after decryptAndVerify and Unmarshal
BleSetRelay(dom, ok) == StoreRelayDomain(dom, ok) /\ UNCHANGED msg

\* writes to the set-wifi and set-relay characteristics: {deviceId, data}
\* with the sealed setting in data, the characteristic named by its path
BleWrites == {req \in HttpRequests : req.encryptedPayload.key[1] = 1}

\* decryptAndVerify: "ok" when it returns the decrypted bytes, else its
\* error ("panic" when cameraPrivateKey.([]byte) fails)
decryptAndVerify(req) ==
    IF ~req.parses THEN "invalid payload format"
    ELSE LET device == GetByID(req.deviceId) IN
    IF device = <<>> THEN "device not paired"
    ELSE IF GetKey("cameraPrivateKey") = <<>> THEN "camera private key not found"
    ELSE IF ~IsBytes(GetKey("cameraPrivateKey")[1]) THEN "panic"
    ELSE LET sharedSecret == SecretFor(device[1]) IN
    IF sharedSecret = <<>> THEN "failed to derive shared secret"
    ELSE LET session == FromSharedSecret(sharedSecret[1]) IN
    IF session = <<>> THEN "failed to create session"
    ELSE IF Decrypt(session[1], req.encryptedPayload) = <<>> THEN "decryption failed"
    ELSE "ok"

\* a write to the set-wifi or set-relay characteristic; ok is the outcome
\* of wifi.Connect or of the config write
BleWrite(req, ok) ==
    LET outcome == decryptAndVerify(req)
        decrypted == req.encryptedPayload.plain
    IN  IF outcome = "ok" /\ decrypted.json /\ req.path = "/set-relay"
        THEN StoreRelayDomain(decrypted.relayUrl, ok)
        ELSE /\ res' = Result("ble", IF outcome # "ok" THEN outcome
                                     ELSE IF ~decrypted.json THEN "parse failed"
                                     ELSE "handled", <<>>)
             /\ Silent
             /\ UNCHANGED <<code, mu, inPair, data, file, failures, timers, pairsOnCode>>
             /\ UNCHANGED farVars

\* connectLoop at its select: return when stopChan is closed, else dial
LoopSelect(l) ==
    /\ loops[l].pc = "select"
    /\ loops' = [loops EXCEPT ![l] = IF stopChan = "closed" THEN NoLoop
                                     ELSE [@ EXCEPT !.pc = "dial"]]
    /\ UNCHANGED <<running, stopChan, conn, socks, starting, booted, reachable>>
    /\ Silent /\ UNCHANGED <<coreVars, res, tasks, streamVars, hostVars, pings>>

\* "go r.pingLoop()" at the end of connect: one goroutine more, which
\* returns only when stopChan is closed; MaxPings stands for that many or
\* more
Spawned(n) == IF n < MaxPings THEN n + 1 ELSE n

\* connect: the dial to the loop's domain succeeds when the relay is
\* reachable, a pingLoop is started and then handleMessages blocks in
\* ReadJSON; a failed dial is followed by time.Sleep(reconnectDelay)
LoopDial(l) ==
    /\ loops[l].pc = "dial"
    /\ IF reachable
       THEN LET k == Lowest(FreeSocks)
                lp == [loops EXCEPT ![l] = [@ EXCEPT !.pc = "read", !.sock = k]]
                sk == [socks EXCEPT ![k] = [used |-> TRUE, dom |-> loops[l].dom, open |-> TRUE]]
            IN  /\ conn' = k
                /\ loops' = lp
                /\ socks' = Collect(sk, lp, k)
                /\ pings' = Spawned(pings)
       ELSE /\ loops' = [loops EXCEPT ![l] = Backoff(@)]
            /\ UNCHANGED <<conn, socks, pings>>
    /\ UNCHANGED <<running, stopChan, starting, booted, reachable>>
    /\ Silent /\ UNCHANGED <<coreVars, res, tasks, streamVars, hostVars>>

\* the link or the relay drops a connection
TransportLoss(k) ==
    /\ socks[k].open
    /\ socks' = [socks EXCEPT ![k] = [@ EXCEPT !.open = FALSE]]
    /\ UNCHANGED <<running, stopChan, conn, loops, starting, booted, reachable>>
    /\ Silent /\ UNCHANGED <<coreVars, res, tasks, streamVars, hostVars, pings>>

\* handleMessages: ReadJSON returns an error, handleMessages returns and
\* connectLoop goes to time.Sleep(reconnectDelay)
LoopReadError(l) ==
    /\ loops[l].pc = "read"
    /\ ~socks[loops[l].sock].open
    /\ loops' = [loops EXCEPT ![l] = Backoff(@)]
    /\ socks' = Collect(socks, loops', conn)
    /\ UNCHANGED <<running, stopChan, conn, starting, booted, reachable>>
    /\ Silent /\ UNCHANGED <<coreVars, res, tasks, streamVars, hostVars, pings>>

\* handleMessages: ReadJSON returns a startStream or stopStream frame of
\* device id, its handler runs, and the next ReadJSON is on r.conn
ReadMessage(l, type, id) ==
    /\ loops[l].pc = "read"
    /\ socks[loops[l].sock].open
    /\ loops' = [loops EXCEPT ![l] = [@ EXCEPT !.sock = IF conn = 0 THEN @ ELSE conn]]
    /\ socks' = Collect(socks, loops', conn)
    /\ CASE type = "startStream" -> handleStartStream(id, TRUE)
         [] type = "stopStream"  -> handleStopStream(id)
    /\ UNCHANGED <<running, stopChan, conn, starting, booted, reachable, tasks>>
    /\ UNCHANGED <<hostVars, pings>>

\* time.Sleep(reconnectDelay) returns
LoopWake(l) ==
    /\ loops[l].pc = "sleep"
    /\ loops[l].wait = 0
    /\ loops' = [loops EXCEPT ![l] = [@ EXCEPT !.pc = "select"]]
    /\ UNCHANGED <<running, stopChan, conn, socks, starting, booted, reachable>>
    /\ Silent /\ UNCHANGED <<coreVars, res, tasks, streamVars, hostVars, pings>>

\* a second passes for the sleeping loops
RelayTick ==
    /\ \E l \in LoopIds : loops[l].pc = "sleep"
    /\ \A l \in LoopIds : loops[l].pc = "sleep" => loops[l].wait > 0
    /\ loops' = [l \in LoopIds |-> IF loops[l].pc = "sleep"
                                   THEN [loops[l] EXCEPT !.wait = @ - 1]
                                   ELSE loops[l]]
    /\ UNCHANGED <<running, stopChan, conn, socks, starting, booted, reachable>>
    /\ Silent /\ UNCHANGED <<coreVars, res, tasks, streamVars, hostVars, pings>>

\* the relay server goes down or comes up
SetReachable(b) ==
    /\ reachable # b
    /\ reachable' = b
    /\ UNCHANGED <<running, stopChan, conn, loops, socks, starting, booted>>
    /\ Silent /\ UNCHANGED <<coreVars, res, tasks, streamVars, hostVars, pings>>

\* Send: "not connected" when r.conn is nil, else the outcome of WriteJSON
\* on the socket r.conn points to
Send ==
    /\ res' = Result("Send", IF conn = 0 THEN "not connected"
                             ELSE IF socks[conn].open THEN "ok"
                             ELSE "write failed", <<>>)
    /\ Silent /\ UNCHANGED <<coreVars, streamVars, relayVars, hostVars, pings>>

\* the goroutines that write to the socket: the handlers of two startStream
\* frames ("go handler(msg)"; f1 is read before f2), the video and audio
\* StreamReader, pingLoop
Frames == << "f1", "f2" >>

Tasks == {Frames[i] : i \in DOMAIN Frames} \cup Readers \cup {"ping"}

\* after boot: no frame read, no StreamReader created, pingLoop waiting
NoTasks ==
    [t \in Tasks |-> IF t \in Readers THEN "off" ELSE IF t = "ping" THEN "idle" ELSE "unread"]

\* the device that sent the frame
Sender(f) == IF f = "f1" THEN "d1" ELSE "d2"

\* one step of goroutine t, to the place pc
TaskStep(t, pc) ==
    /\ tasks' = [tasks EXCEPT ![t] = pc]
    /\ UNCHANGED <<running, stopChan, conn, loops, socks, starting, booted, reachable>>
    /\ Silent /\ UNCHANGED <<coreVars, res, streamVars, hostVars, pings>>

\* handleMessages: ReadJSON returns the i-th frame and "go handler(msg)"
\* creates its goroutine; the next ReadJSON is on r.conn
ReadFrame(l, i) ==
    /\ loops[l].pc = "read"
    /\ socks[loops[l].sock].open
    /\ tasks[Frames[i]] = "unread"
    /\ \A j \in 1..(i - 1) : tasks[Frames[j]] # "unread"
    /\ loops' = [loops EXCEPT ![l] = [@ EXCEPT !.sock = IF conn = 0 THEN @ ELSE conn]]
    /\ socks' = Collect(socks, loops', conn)
    /\ tasks' = [tasks EXCEPT ![Frames[i]] = "spawned"]
    /\ UNCHANGED <<running, stopChan, conn, starting, booted, reachable>>
    /\ Silent /\ UNCHANGED <<coreVars, res, streamVars, hostVars, pings>>

\* the scheduler runs the goroutine of frame f: handleStartStream, up to
\* its call of SendEncrypted if it replies
HandlerBegin(f) ==
    /\ tasks[f] = "spawned"
    /\ handleStartStream(Sender(f), TRUE)
    /\ tasks' = [tasks EXCEPT ![f] = IF StartStream(TRUE) = "ok" THEN "done" ELSE "reply"]
    /\ UNCHANGED <<running, stopChan, conn, loops, socks, starting, booted, reachable>>
    /\ UNCHANGED <<hostVars, pings>>

\* Send of the handler's reply: "not connected", or r.conn.WriteJSON starts
WriteBegin(f) ==
    /\ tasks[f] = "reply"
    /\ TaskStep(f, IF conn = 0 THEN "done" ELSE "writing")

\* r.conn.WriteJSON returns
WriteEnd(f) ==
    /\ tasks[f] = "writing"
    /\ TaskStep(f, "done")

\* broadcastChunk of a StreamReader, created by the first startStream and
\* idle between two chunks: viewersMu.Lock
ChunkLock(e) ==
    /\ streaming
    /\ tasks[e] \in {"off", "idle"}
    /\ \A o \in Readers : tasks[o] \notin {"locked", "writing"}
    /\ TaskStep(e, "locked")

\* broadcastChunk: SendEncrypted to a viewer reaches r.conn.WriteJSON, or
\* there is nothing to write and viewersMu is unlocked
ChunkWrite(e) ==
    /\ tasks[e] = "locked"
    /\ TaskStep(e, IF viewers # {} /\ conn # 0 THEN "writing" ELSE "idle")

\* broadcastChunk: r.conn.WriteJSON returns, viewersMu.Unlock
ChunkEnd(e) ==
    /\ tasks[e] = "writing"
    /\ TaskStep(e, "idle")

\* pingLoop: the ticker fires, "if r.conn != nil" WriteMessage starts
PingBegin ==
    /\ tasks["ping"] = "idle"
    /\ conn # 0
    /\ TaskStep("ping", "writing")

\* pingLoop: WriteMessage returns
PingEnd ==
    /\ tasks["ping"] = "writing"
    /\ TaskStep("ping", "idle")

\* Stop: closes stopChan, on which every pingLoop returns, and the socket,
\* clears conn and running
Stop ==
    /\ running
    /\ running' = FALSE
    /\ stopChan' = "closed"
    /\ conn' = 0
    /\ loops' = [l \in LoopIds |-> IF Live(l) THEN [loops[l] EXCEPT !.stopped = TRUE]
                                   ELSE loops[l]]
    /\ socks' = Collect([k \in SockIds |-> IF k = conn THEN [socks[k] EXCEPT !.open = FALSE]
                                           ELSE socks[k]], loops', 0)
    /\ res' = Result("Stop", "ok", <<>>)
    /\ pings' = 0
    /\ UNCHANGED <<starting, booted, reachable>>
    /\ Silent /\ UNCHANGED <<coreVars, tasks, streamVars, hostVars>>

\* ------------------------------------------------------------------------
\* Message delivery
\* ------------------------------------------------------------------------
\* the relay client reads a frame from the socket (via = "relay"), or the
\* pairing HTTP server accepts a POST (via = "http")
Receive(via, m) ==
    /\ msg = <<>>
    /\ msg' = << [via |-> via, m |-> m] >>
    /\ UNCHANGED <<code, mu, inPair, data, file, failures, timers, pairsOnCode, res>>

\* "go handler(msg)" for a relay frame, the mux handler for a POST
Deliver ==
    /\ msg # <<>>
    /\ msg' = <<>>
    /\ IF msg[1].via = "relay"
       THEN RelayMessage(msg[1].m, TRUE)
       ELSE HttpRequest(msg[1].m, TRUE) /\ Silent

\* the BLE stack calls the write handler of the characteristic
BleDeliver(ok) ==
    /\ msg # <<>>
    /\ msg[1].via = "ble"
    /\ msg' = <<>>
    /\ BleWrite(msg[1].m, ok)

\* ------------------------------------------------------------------------
\* Sealed payloads in transit
\* ------------------------------------------------------------------------
\* a peer seals plaintext under its session; msg keeps what was sealed and
\* whether the text is still as Encrypt returned it
EncryptCall(session, plaintext) ==
    /\ msg' = << [via |-> "seal", m |-> Encrypt(session, plaintext),
                  key |-> session, plain |-> plaintext, intact |-> TRUE] >>
    /\ res' = Result("Encrypt", "ok", <<>>)
    /\ UNCHANGED <<code, mu, inPair, data, file, failures, timers, pairsOnCode, sideVars>>

\* the lengths a sealed text is cut to
CutSizes == {0, NonceSize - 1, NonceSize, NonceSize + TagSize}

\* the text arrives cut to its first n bytes
Truncate(n) ==
    /\ msg # <<>>
    /\ msg[1].m.wire
    /\ n < msg[1].m.size
    /\ msg' = << [msg[1] EXCEPT !.m = [@ EXCEPT !.size = n], !.intact = FALSE] >>
    /\ UNCHANGED <<code, mu, inPair, data, file, failures, timers, pairsOnCode, res, sideVars>>

\* the text arrives with a character outside the base64 alphabet
Garble ==
    /\ msg # <<>>
    /\ msg[1].m.wire
    /\ msg' = << [msg[1] EXCEPT !.m = NotBase64(msg[1].m.plain), !.intact = FALSE] >>
    /\ UNCHANGED <<code, mu, inPair, data, file, failures, timers, pairsOnCode, res, sideVars>>

\* Decrypt of the text in transit by a session: the plaintext, or the error
DecryptCall(session) ==
    /\ msg # <<>>
    /\ LET out == Decrypt(session, msg[1].m) IN
       res' = Result("Decrypt", IF out = <<>> THEN "error" ELSE "ok", << session, out >>)
    /\ UNCHANGED <<coreVars, sideVars>>

\* ------------------------------------------------------------------------
\* Timers and time
\* ------------------------------------------------------------------------
\* the runtime fires a timer at its deadline and starts its callback
TimerFire(t) ==
    /\ t \in TimerSet
    /\ t.st = "armed"
    /\ t.deadline <= now
    /\ timers' = (timers (-) One(t)) (+) One(Timer(t.id, t.deadline, "fired", t.inMap, t.removed))
    /\ UNCHANGED <<code, mu, inPair, data, file, failures, pairsOnCode, msg, res>>

\* the callback of ScheduleKick: remove the device, delete(kickTimers, id)
KickCallback(t, ok) ==
    /\ t \in TimerSet
    /\ t.st = "fired"
    /\ ok \/ failures < MaxWriteFailures
    /\ data' = SetKey(data, "connectedDevices", Filtered(getDevices, t.id))
    /\ file' = save(data', file, ok)
    /\ failures' = IF ok THEN failures ELSE failures + 1
    /\ timers' = Unmap(timers (-) One(t), t.id)
    /\ res' = Result("kickCallback", "done", << t.id >>)
    /\ UNCHANGED <<code, mu, inPair, pairsOnCode, msg>>

\* a stored time one minute later
Later(t) == IF t - 1 < now - MaxPast THEN now - MaxPast ELSE t - 1

\* a minute passes.  Due timers fire, and their callbacks and a running
\* PairDevice finish, within the minute
Tick ==
    /\ ~mu
    /\ \A t \in TimerSet : t.st = "armed" /\ t.deadline > now
    /\ code' = IF code = <<>> THEN code
               ELSE << [code[1] EXCEPT !.ExpiresAt = Later(code[1].ExpiresAt)] >>
    /\ timers' = BagOfAll(LAMBDA t : Timer(t.id, Later(t.deadline), t.st, t.inMap, t.removed),
                         timers)
    /\ UNCHANGED <<mu, inPair, data, file, failures, pairsOnCode, msg, res>>

\* ------------------------------------------------------------------------
\* package updater
\* ------------------------------------------------------------------------
\* the goroutines that can be inside StartUpdate at one time
UpdateCalls == {"u1", "u2"}

\* updater.Init: status up-to-date; no StartUpdate has been called
NoUpdater == [status |-> "up-to-date", calls |-> [c \in UpdateCalls |-> "idle"]]

\* getInactivePartition
getInactivePartition(active) == IF active = "A" THEN "B" ELSE "A"

\* the medium as imaged: root= names PartitionA, which is booted, there is no
\* bootcount.txt and the firmware runs.  attempts and confirmed are history:
\* the boots since the last setBootCounter in which the firmware was started,
\* and whether ConfirmSuccessfulBoot has removed the counter since then
FirstBoot ==
    [cmdline |-> "A", root |-> "A", counter |-> <<>>, phase |-> "run",
     attempts |-> 0, confirmed |-> FALSE]

\* "if [ "$NEW_COUNT" -le 0 ]"
Exhausted(count) == count <= 0

\* Updater.setError
setError(u, c) == [status |-> "error", calls |-> [u.calls EXCEPT ![c] = "idle"]]

\* Updater.CheckForUpdates, called by the ticker goroutine of main; outcome:
\* the request or its decoding failed, or the version served is the running
\* one ("same") or another one ("newer")
CheckForUpdates(outcome) ==
    /\ boot.phase = "run"
    /\ updater' =
          IF GetKey("relayDomain") = <<>> THEN updater
          ELSE IF outcome = "failed" THEN [updater EXCEPT !.status = "error"]
          ELSE IF outcome = "newer" THEN [updater EXCEPT !.status = "update-available"]
          ELSE IF updater.status # "update-available"
               THEN [updater EXCEPT !.status = "up-to-date"]
               ELSE updater
    /\ res' = Result("CheckForUpdates",
                     IF GetKey("relayDomain") = <<>> THEN "skipped" ELSE outcome, <<>>)
    /\ Silent /\ UNCHANGED <<coreVars, streamVars, relayVars, pings, boot>>

\* StartUpdate up to the download: "if u.status != StatusUpdateAvailable"
StartUpdate(c) ==
    /\ boot.phase = "run"
    /\ updater.calls[c] = "idle"
    /\ IF updater.status # "update-available"
       THEN /\ res' = Result("StartUpdate", "no update available", << c >>)
            /\ UNCHANGED updater
       ELSE /\ updater' = [status |-> "downloading",
                           calls |-> [updater.calls EXCEPT ![c] = "downloading"]]
            /\ res' = Result("StartUpdate", "downloading", << c >>)
    /\ Silent /\ UNCHANGED <<coreVars, streamVars, relayVars, pings, boot>>

\* StartUpdate: downloadFile returns
DownloadEnd(c, ok) ==
    /\ boot.phase = "run"
    /\ updater.calls[c] = "downloading"
    /\ updater' = IF ok THEN [status |-> "installing",
                              calls |-> [updater.calls EXCEPT ![c] = "installing"]]
                  ELSE setError(updater, c)
    /\ res' = Result("StartUpdate", IF ok THEN "installing" ELSE "download failed", << c >>)
    /\ Silent /\ UNCHANGED <<coreVars, streamVars, relayVars, pings, boot>>

\* StartUpdate: flashFirmware returns.  flashed: dd and switchBootPartition
\* succeed; counted: setBootCounter succeeds (its error is only logged).
\* The reboot is scheduled and StartUpdate returns nil
FlashEnd(c, flashed, counted) ==
    /\ boot.phase = "run"
    /\ updater.calls[c] = "installing"
    /\ IF flashed
       THEN /\ updater' = [updater EXCEPT !.calls[c] = "rebooting"]
            /\ boot' = IF counted
                       THEN [boot EXCEPT !.cmdline = getInactivePartition(boot.root),
                                         !.counter = << MaxBootAttempts >>,
                                         !.attempts = 0,
                                         !.confirmed = FALSE]
                       ELSE [boot EXCEPT !.cmdline = getInactivePartition(boot.root)]
       ELSE /\ updater' = setError(updater, c)
            /\ UNCHANGED boot
    /\ res' = Result("StartUpdate", IF flashed THEN "ok" ELSE "installation failed", << c >>)
    /\ Silent /\ UNCHANGED <<coreVars, streamVars, relayVars, pings>>

\* the system goes down and boots the partition cmdline.txt names: the
\* reboot StartUpdate scheduled, a crash or a power cycle.  The process is
\* gone; boot-watchdog.service runs first
Reboot ==
    /\ boot.phase = "run"
    /\ boot' = [boot EXCEPT !.phase = "watchdog", !.root = boot.cmdline]
    /\ updater' = NoUpdater
    /\ res' = Result("reboot", "ok", <<>>)
    /\ Silent /\ UNCHANGED <<coreVars, streamVars, relayVars, pings>>

\* boot-watchdog.sh, then the rest of the boot.  Without bootcount.txt it
\* exits; else it writes COUNT - 1 and, when that is <= 0, points
\* cmdline.txt to the other partition, removes the counter and reboots.
\* Otherwise the firmware is started
Watchdog ==
    /\ boot.phase = "watchdog"
    /\ IF boot.counter = <<>>
       THEN /\ boot' = [boot EXCEPT !.phase = "run"]
            /\ res' = Result("watchdog", "stable", <<>>)
       ELSE LET NEW_COUNT == boot.counter[1] - 1
                NEW_ROOT  == getInactivePartition(boot.root)
            IN  IF Exhausted(NEW_COUNT)
                THEN /\ boot' = [boot EXCEPT !.cmdline = NEW_ROOT, !.root = NEW_ROOT,
                                             !.counter = <<>>]
                     /\ res' = Result("watchdog", "rollback", <<>>)
                ELSE /\ boot' = [boot EXCEPT !.counter = << NEW_COUNT >>,
                                             !.phase = "run",
                                             !.attempts = @ + 1]
                     /\ res' = Result("watchdog", "attempt", << NEW_COUNT >>)
    /\ Silent /\ UNCHANGED <<coreVars, streamVars, relayVars, pings, updater>>

\* ConfirmSuccessfulBoot; ok: os.Remove succeeds or the file is absent
ConfirmSuccessfulBoot(ok) ==
    /\ boot.phase = "run"
    /\ boot' = IF ok THEN [boot EXCEPT !.counter = <<>>, !.confirmed = TRUE] ELSE boot
    /\ res' = Result("ConfirmSuccessfulBoot",
                     IF ok THEN "ok" ELSE "failed to remove boot counter", <<>>)
    /\ Silent /\ UNCHANGED <<coreVars, streamVars, relayVars, pings, updater>>

\* ------------------------------------------------------------------------
\* Specification
\* ------------------------------------------------------------------------
\* Config.load: json.Unmarshal of the file into map[string]any.  A []byte
\* was written as its base64 text and is read back as that string; the
\* device list is re-read into []Device by Devices.getDevices
load(stored) ==
    [stored EXCEPT
        !.cameraPrivateKey = IF @ = <<>> THEN <<>> ELSE << EncodePublicKey(@[1]) >>,
        !.cameraPublicKey  = IF @ = <<>> THEN <<>> ELSE << EncodePublicKey(@[1]) >>]

\* the state after the Init calls of main, with the config file as stored
Boot(stored) ==
    /\ code = <<>>
    /\ mu = FALSE
    /\ inPair = [p \in Callers |-> <<>>]
    /\ data = load(stored)
    /\ file = stored
    /\ failures = 0
    /\ timers = EmptyBag
    /\ pairsOnCode = 0
    /\ msg = <<>>
    /\ res = Result("none", "ok", <<>>)
    /\ replies = <<>>
    /\ viewers = {}
    /\ streaming = FALSE
    /\ recording = FALSE
    /\ readers = NoReaders
    /\ running = FALSE
    /\ stopChan = "nil"
    /\ conn = 0
    /\ loops = [l \in LoopIds |-> NoLoop]
    /\ socks = [k \in SockIds |-> NoSock]
    /\ starting = [c \in Starters |-> <<>>]
    /\ booted = FALSE
    /\ reachable = FALSE
    /\ tasks = NoTasks
    /\ pings = 0
    /\ updater = NoUpdater
    /\ boot = FirstBoot

\* first boot: no config file, no update started, the medium as imaged
Init == Boot(EmptyConfig)

\* the config files an earlier run can have left: a relay URL set over
\* HTTP or not, a relay domain set over BLE or not
StoredConfigs ==
    {[EmptyConfig EXCEPT !.relayUrl = u, !.relayDomain = d] :
        u \in {<<>>, << "a.example" >>}, d \in {<<>>, << "a.example" >>}}

InitRelay == \E stored \in StoredConfigs : Boot(stored)

\* the requests and messages of devices that follow the protocol: a 32-byte
\* key of their own, a payload sealed for the camera that names its sender
OwnKey(id) == [len |-> KeySize, enc |-> IF id = "d1" THEN 1 ELSE 2]

HonestRequests ==
    {req \in PairRequests : /\ req.devicePublicKey = EncodePublicKey(OwnKey(req.deviceId))
                            /\ req.code = 1}

HonestEnvelopes ==
    {env \in Envelopes : /\ env.parses
                         /\ env.encryptedPayload.wire
                         /\ env.encryptedPayload.plain.json
                         /\ env.encryptedPayload.plain.deviceId = env.deviceId
                         /\ env.encryptedPayload.key = <<1, Point(OwnKey(env.deviceId).enc)>>}

\* every kind of pair request: each code, a 32-byte key, keys of 31 and 33
\* bytes, text that is not base64
KeyKindRequests == {req \in PairRequests : req.devicePublicKey.key.enc = 1}

\* pair requests with the spoken code and a 32-byte key: d1 registers a
\* point or the low-order point, d2 another point or a second encoding of
\* d1's point
RouterRequests ==
    {req \in PairRequests :
        /\ req.code = 1
        /\ DecodePublicKey(req.devicePublicKey) # <<>>
        /\ req.devicePublicKey.key.enc \in (IF req.deviceId = "d1" THEN {0, 1} ELSE {2, 3})}

AllOk == [i \in 1..3 |-> TRUE]

\* the config file a run that paired d1 and d2 has left
PairedConfig ==
    [EmptyConfig EXCEPT
        !.cameraPrivateKey = << GenerateKeypair(1).PrivateKey >>,
        !.cameraPublicKey  = << GenerateKeypair(1).PublicKey >>,
        !.connectedDevices = AddList(AddList(<<>>, "d1", OwnKey("d1")), "d2", OwnKey("d2"))]

\* first boot, or a boot after devices were paired
InitReplies == \E stored \in {EmptyConfig, PairedConfig} : Boot(stored)

\* the process runs: no handler goroutine of the relay client has panicked
\* (net/http recovers a panic of an HTTP handler)
Alive == ~(res.op = "relay" /\ res.r = "panic")

\* the whole system, driven by devices that follow the protocol
Next ==
    \/ Tick /\ Silent /\ UNCHANGED farVars
    \/ GetCode(1) /\ Silent /\ UNCHANGED farVars
    \/ \E req \in HonestRequests : PairDevice("http", req) /\ Silent /\ UNCHANGED farVars
    \/ PairCommit("http", 1, AllOk) /\ Silent /\ UNCHANGED farVars
    \/ \E env \in HonestEnvelopes : RelayMessage(env, TRUE) /\ UNCHANGED msg /\ UNCHANGED farVars
    \/ \E t \in TimerSet : TimerFire(t) /\ Silent /\ UNCHANGED farVars
    \/ \E t \in TimerSet : KickCallback(t, TRUE) /\ Silent /\ UNCHANGED farVars

Spec == Init /\ [][Next]_vars

\* the pairing service under every pair request, on both carriers
NextPairing ==
    \/ Tick /\ Silent /\ UNCHANGED farVars
    \/ \E c \in Codes : GetCode(c) /\ Silent /\ UNCHANGED farVars
    \/ \E p \in Callers, req \in KeyKindRequests : PairDevice(p, req) /\ Silent /\ UNCHANGED farVars
    \/ \E p \in Callers, k \in Scalars, oks \in WriteOutcomes(3) : PairCommit(p, k, oks) /\ Silent /\ UNCHANGED farVars

SpecPairing == Init /\ [][NextPairing]_vars

\* paired devices that remove themselves and kick each other, d1 watching
\* the stream; a viewer is added for a device the router has authenticated
NextViewers ==
    \/ Tick /\ Silent /\ UNCHANGED farVars
    \/ GetCode(1) /\ Silent /\ UNCHANGED farVars
    \/ \E req \in HonestRequests : PairDevice("http", req) /\ Silent /\ UNCHANGED farVars
    \/ PairCommit("http", 1, AllOk) /\ Silent /\ UNCHANGED farVars
    \/ "d1" \in IDs(getDevices) /\ addViewer("d1") /\ UNCHANGED <<relayVars, hostVars, pings>>
    \/ \E env \in HonestEnvelopes : RelayMessage(env, TRUE) /\ UNCHANGED msg /\ UNCHANGED farVars
    \/ \E t \in TimerSet : TimerFire(t) /\ Silent /\ UNCHANGED farVars
    \/ \E t \in TimerSet : KickCallback(t, TRUE) /\ Silent /\ UNCHANGED farVars

SpecViewers == Init /\ [][NextViewers]_vars

\* devices that follow the protocol, on a first boot or on a boot after
\* devices were paired
NextRestart ==
    \/ Alive /\ Tick /\ Silent /\ UNCHANGED farVars
    \/ Alive /\ GetCode(1) /\ Silent /\ UNCHANGED farVars
    \/ Alive /\ \E req \in HonestRequests : PairDevice("http", req) /\ Silent /\ UNCHANGED farVars
    \/ Alive /\ PairCommit("http", 1, AllOk) /\ Silent /\ UNCHANGED farVars
    \/ Alive /\ \E env \in HonestEnvelopes : RelayMessage(env, TRUE) /\ UNCHANGED msg /\ UNCHANGED farVars
    \/ Alive /\ \E t \in TimerSet : TimerFire(t) /\ Silent /\ UNCHANGED farVars
    \/ Alive /\ \E t \in TimerSet : KickCallback(t, TRUE) /\ Silent /\ UNCHANGED farVars

SpecRestart == InitReplies /\ [][NextRestart]_vars

\* GetCode with the code it formats from the random bytes
NextCode ==
    \/ Tick /\ Silent /\ UNCHANGED farVars
    \/ \E b \in RandomBytes, bits \in IntBits :
           GetCode(Sprintf06d(randomInt(b, bits, 0, 999999))) /\ Silent /\ UNCHANGED farVars

SpecCode == Init /\ [][NextCode]_vars

\* the updater and the boot watchdog, with a relay domain configured or not
NextUpdate ==
    \/ \E outcome \in {"failed", "same", "newer"} : CheckForUpdates(outcome)
    \/ \E c \in UpdateCalls : StartUpdate(c)
    \/ \E c \in UpdateCalls, ok \in BOOLEAN : DownloadEnd(c, ok)
    \/ \E c \in UpdateCalls, flashed \in BOOLEAN, counted \in BOOLEAN : FlashEnd(c, flashed, counted)
    \/ Reboot
    \/ Watchdog
    \/ \E ok \in BOOLEAN : ConfirmSuccessfulBoot(ok)

SpecUpdate == InitRelay /\ [][NextUpdate]_vars

\* the stream readers between startStream and stopStream
NextReader ==
    \/ \E id \in DeviceIds, started \in BOOLEAN : handleStartStream(id, started) /\ UNCHANGED <<relayVars, hostVars, pings>>
    \/ \E id \in DeviceIds : handleStopStream(id) /\ UNCHANGED <<relayVars, hostVars, pings>>
    \/ \E e \in Readers, n \in {0, 1}, err \in {"nil", "EOF", "error"} :
           ReaderRead(e, n, err) /\ UNCHANGED <<relayVars, hostVars, pings>>

SpecReader == Init /\ [][NextReader]_vars

\* the command router and the pairing HTTP server under every message; a
\* message read is handled before the next call starts
NextRouter ==
    \/ msg = <<>> /\ GetCode(1) /\ Silent /\ UNCHANGED farVars
    \/ msg = <<>> /\ \E req \in RouterRequests : PairDevice("http", req) /\ Silent /\ UNCHANGED farVars
    \/ msg = <<>> /\ \E k \in Scalars : PairCommit("http", k, AllOk) /\ Silent /\ UNCHANGED farVars
    \/ \E env \in Envelopes : Receive("relay", env) /\ Silent /\ UNCHANGED farVars
    \/ \E req \in HttpRequests : Receive("http", req) /\ Silent /\ UNCHANGED farVars
    \/ Deliver /\ UNCHANGED farVars

SpecRouter == Init /\ [][NextRouter]_vars

\* the command router with every registered handler, under every message
\* and every decrypted payload
NextReplies ==
    \/ Alive /\ GetCode(1) /\ Silent /\ UNCHANGED farVars
    \/ Alive /\ \E req \in RouterRequests : PairDevice("http", req) /\ Silent /\ UNCHANGED farVars
    \/ Alive /\ PairCommit("http", 1, AllOk) /\ Silent /\ UNCHANGED farVars
    \/ Alive /\ \E env \in Commands : \E run \in HandlerRuns(env.type) :
                    Command(env, run[1], run[2], run[3])

SpecReplies == InitReplies /\ [][NextReplies]_vars

\* the two pairing carriers under every set-wifi and set-relay request
NextCarriers ==
    \/ msg = <<>> /\ GetCode(1) /\ Silent /\ UNCHANGED farVars
    \/ msg = <<>> /\ \E req \in RouterRequests : PairDevice("http", req) /\ Silent /\ UNCHANGED farVars
    \/ msg = <<>> /\ PairCommit("http", 1, AllOk) /\ Silent /\ UNCHANGED farVars
    \/ \E req \in BleWrites : Receive("http", req) /\ Silent /\ UNCHANGED farVars
    \/ \E req \in BleWrites : Receive("ble", req) /\ Silent /\ UNCHANGED farVars
    \/ msg # <<>> /\ msg[1].via = "http" /\ Deliver /\ UNCHANGED farVars
    \/ BleDeliver(TRUE)
    \/ msg = <<>> /\ StartCommit("ble")

SpecCarriers == Init /\ [][NextCarriers]_vars

\* the goroutines that write to the relay socket, from the BLE set-relay
\* write that starts the client on
NextWire ==
    \/ BleSetRelay("a.example", TRUE)
    \/ StartCommit("ble")
    \/ \E l \in LoopIds : LoopSelect(l)
    \/ \E l \in LoopIds : LoopDial(l)
    \/ SetReachable(TRUE)
    \/ addViewer("d1") /\ UNCHANGED <<relayVars, hostVars, pings>>
    \/ \E l \in LoopIds, i \in DOMAIN Frames : ReadFrame(l, i)
    \/ \E i \in DOMAIN Frames : HandlerBegin(Frames[i])
    \/ \E i \in DOMAIN Frames : WriteBegin(Frames[i])
    \/ \E i \in DOMAIN Frames : WriteEnd(Frames[i])
    \/ \E e \in Readers : ChunkLock(e)
    \/ \E e \in Readers : ChunkWrite(e)
    \/ \E e \in Readers : ChunkEnd(e)
    \/ PingBegin
    \/ PingEnd

SpecWire == Init /\ [][NextWire]_vars

\* the stream handlers, the viewer set and the recorder under concurrent
\* requests of four devices
NextStream ==
    \/ \E id \in ViewerIds : addViewer(id) /\ UNCHANGED <<relayVars, hostVars, pings>>
    \/ \E id \in ViewerIds : removeViewer(id) /\ UNCHANGED <<relayVars, hostVars, pings>>
    \/ \E id \in ViewerIds, started \in BOOLEAN : handleStartStream(id, started) /\ UNCHANGED <<relayVars, hostVars, pings>>
    \/ \E id \in ViewerIds : handleStopStream(id) /\ UNCHANGED <<relayVars, hostVars, pings>>
    \/ \E started \in BOOLEAN : StartRecording(started) /\ UNCHANGED <<relayVars, hostVars, pings>>
    \/ StopRecording /\ UNCHANGED <<relayVars, hostVars, pings>>

SpecStream == Init /\ [][NextStream]_vars

\* Encrypt and Decrypt over every session key and plaintext, with the
\* sealed text cut short or garbled on its way
NextSeal ==
    \/ \E session \in SessionKeys, plaintext \in Plains : EncryptCall(session, plaintext)
    \/ \E n \in CutSizes : Truncate(n)
    \/ Garble
    \/ \E session \in SessionKeys : DecryptCall(session)

SpecSeal == Init /\ [][NextSeal]_vars

\* the relay client as main and the BLE handler start it, with one
\* streaming device
NextRelay ==
    \/ MainStart
    \/ \E dom \in RelayDomains : BleSetRelay(dom, TRUE)
    \/ \E c \in Starters : StartCommit(c)
    \/ \E l \in LoopIds : LoopSelect(l)
    \/ \E l \in LoopIds : LoopDial(l)
    \/ \E k \in SockIds : TransportLoss(k)
    \/ \E l \in LoopIds : LoopReadError(l)
    \/ \E l \in LoopIds, type \in {"startStream", "stopStream"} : ReadMessage(l, type, "d1")
    \/ \E l \in LoopIds : LoopWake(l)
    \/ RelayTick
    \/ \E b \in BOOLEAN : SetReachable(b)
    \/ addViewer("d1") /\ UNCHANGED <<relayVars, hostVars, pings>>

SpecRelay == InitRelay /\ [][NextRelay]_vars

\* the goroutines of the connect loops are scheduled and time passes
RelayFairness ==
    /\ \A l \in LoopIds : WF_vars(LoopSelect(l)) /\ WF_vars(LoopDial(l))
    /\ \A l \in LoopIds : WF_vars(LoopReadError(l)) /\ WF_vars(LoopWake(l))
    /\ WF_vars(RelayTick)

SpecRelayFair == SpecRelay /\ RelayFairness

\* the relay client as the BLE handler starts it, with Stop
NextStop ==
    \/ \E dom \in RelayDomains : BleSetRelay(dom, TRUE)
    \/ StartCommit("ble")
    \/ \E l \in LoopIds : LoopSelect(l)
    \/ \E l \in LoopIds : LoopDial(l)
    \/ \E k \in SockIds : TransportLoss(k)
    \/ \E l \in LoopIds : LoopReadError(l)
    \/ \E l \in LoopIds : LoopWake(l)
    \/ RelayTick
    \/ \E b \in BOOLEAN : SetReachable(b)
    \/ Stop

SpecStop == InitRelay /\ [][NextStop]_vars

\* the relay client as the BLE handler starts it, with handlers that send
NextSend ==
    \/ \E dom \in RelayDomains : BleSetRelay(dom, TRUE)
    \/ StartCommit("ble")
    \/ \E l \in LoopIds : LoopSelect(l)
    \/ \E l \in LoopIds : LoopDial(l)
    \/ \E k \in SockIds : TransportLoss(k)
    \/ \E l \in LoopIds : LoopReadError(l)
    \/ \E l \in LoopIds : LoopWake(l)
    \/ RelayTick
    \/ \E b \in BOOLEAN : SetReachable(b)
    \/ Send

SpecSend == InitRelay /\ [][NextSend]_vars

\* ------------------------------------------------------------------------
\* Properties
\* ------------------------------------------------------------------------
\* everything a relay message or an HTTP request could change
Guarded == <<code, mu, inPair, data, file, failures, timers, pairsOnCode>>

Registered(id) == \E i \in DOMAIN getDevices : getDevices[i].id = id

KeysOf(id) == {getDevices[i].publicKey : i \in {j \in DOMAIN getDevices : getDevices[j].id = id}}

\* the key a device registered with publicKey shares with the camera
SessionKey(publicKey) == <<GetKey("cameraPrivateKey")[1].enc, Point(publicKey.enc)>>

\* the payload opens under the key derived from the camera private key and
\* the registered public key of device id
OpensFor(payload, id) ==
    /\ GetKey("cameraPrivateKey") # <<>>
    /\ payload.wire
    /\ \E pk \in KeysOf(id) : Point(pk.enc) # 0 /\ payload.key = SessionKey(pk)

\* C1: the router calls a handler only for an envelope whose deviceId is
\* registered, with the camera private key present and a payload that opens
\* under the key of that device; every other envelope changes nothing
C1_HandlerOnlyIfAuthentic ==
    [][Deliver /\ msg[1].via = "relay" =>
          LET env == msg[1].m
              authentic == /\ Registered(env.deviceId)
                           /\ OpensFor(env.encryptedPayload, env.deviceId)
          IN  /\ res'.r = "handled" => authentic
              /\ ~authentic => res'.r # "handled" /\ UNCHANGED Guarded]_vars

\* a rejected envelope of a registered device beside a kick timer and a
\* second device: state a rejection could have damaged
C1_Witness ==
    /\ res.op = "relay"
    /\ res.r = "Failed to decrypt payload!"
    /\ Len(getDevices) = 2
    /\ timers # EmptyBag

\* an envelope or request sealed by registered device d1, naming d1 inside,
\* whose outer deviceId names another registered device with another key
Replayed(m) ==
    \E d1 \in DeviceIds :
       /\ d1 # m.deviceId
       /\ Registered(d1) /\ Registered(m.deviceId)
       /\ KeysOf(d1) \cap KeysOf(m.deviceId) = {}
       /\ OpensFor(m.encryptedPayload, d1)
       /\ m.encryptedPayload.plain.json
       /\ m.encryptedPayload.plain.deviceId = d1

\* C2: a message sealed by one paired device and resubmitted under the
\* deviceId of another paired device with a different public key reaches no
\* handler and changes nothing, on the relay and on the pairing HTTP server
C2_ReplayRejected ==
    [][Deliver /\ msg[1].m.parses /\ Replayed(msg[1].m) =>
          res'.r # "handled" /\ UNCHANGED Guarded]_vars

\* the replay reaches the identity check: the two devices registered two
\* encodings of one point, so the payload opens under the other device's key
C2_Witness ==
    /\ res.r = "Device ID mismatch!"
    /\ Len(getDevices) = 2
    /\ getDevices[1].publicKey # getDevices[2].publicKey
    /\ Point(getDevices[1].publicKey.enc) = Point(getDevices[2].publicKey.enc)

\* a pair request with a 32-byte key that presents the code c
Presents(req, c) ==
    /\ DecodePublicKey(req.devicePublicKey) # <<>>
    /\ req.code = c

\* the call returned InvalidCode and did not enter the critical section
RejectedCode == res'.r = "InvalidCode" /\ UNCHANGED <<mu, inPair>>

\* C3: a pairing code admits at most one successful pair: a successful pair
\* leaves no code behind, and until get_code generates a new code every
\* pair call, on either carrier, fails with InvalidCode
C3_OnePairPerCode ==
    /\ [](pairsOnCode <= 1 /\ (pairsOnCode = 1 => code = <<>>))
    /\ [][\A p \in Callers, req \in KeyKindRequests :
             pairsOnCode = 1 /\ DecodePublicKey(req.devicePublicKey) # <<>> /\ PairDevice(p, req)
                => RejectedCode]_vars

\* the code was used by one pair and the next pair call was refused
C3_Witness ==
    /\ pairsOnCode = 1
    /\ code = <<>>
    /\ res.op = "pair"
    /\ res.r = "InvalidCode"
    /\ Len(getDevices) = 1

\* C4: pair with no active code, with a code that differs from the active
\* code, or with a code at or past its expiry fails with InvalidCode and
\* leaves code, expiry, registry and camera keys unchanged
C4_InvalidCodeLeavesState ==
    [][\A p \in Callers, req \in KeyKindRequests :
          /\ DecodePublicKey(req.devicePublicKey) # <<>>
          /\ \/ code = <<>>
             \/ code[1].Code # req.code
             \/ now >= code[1].ExpiresAt
          /\ PairDevice(p, req)
          => RejectedCode /\ UNCHANGED <<code, data, file>>]_vars

\* C5: from its expiry on (t >= expiry) a code is rejected by pair, and
\* get_code generates a new code
C5_RejectedFromExpiry ==
    [][/\ \A p \in Callers, req \in KeyKindRequests :
             /\ code # <<>>
             /\ now >= code[1].ExpiresAt
             /\ Presents(req, code[1].Code)
             /\ PairDevice(p, req)
             => RejectedCode
       /\ \A c \in Codes :
             /\ code # <<>>
             /\ now >= code[1].ExpiresAt
             /\ GetCode(c)
             => code'[1].ExpiresAt = now + codeExpiry]_vars

\* the camera keypair held in a config map
KX(d) == <<d.cameraPrivateKey, d.cameraPublicKey>>

\* C6: the camera keypair, once present, is never changed by any operation;
\* a successful pair leaves a keypair in memory and in the file and returns
\* its public key
C6_OneKeyPair ==
    [][/\ GetKey("cameraPrivateKey") # <<>> => data'.cameraPrivateKey = data.cameraPrivateKey
       /\ GetKey("cameraPublicKey") # <<>> => data'.cameraPublicKey = data.cameraPublicKey
       /\ file.cameraPublicKey # <<>> => KX(file') = KX(file)
       /\ (mu /\ ~mu' /\ res'.r = "ok") =>
             /\ data'.cameraPrivateKey # <<>>
             /\ data'.cameraPublicKey =
                   << GenerateKeypair(data'.cameraPrivateKey[1].enc).PublicKey >>
             /\ KX(file') = KX(data')
             /\ res'.v = << EncodePublicKey(data'.cameraPublicKey[1]) >>]_vars

\* a second device paired after a kick was scheduled, and the pair returned
\* the key of the first pairing
C6_Witness ==
    /\ res.op = "pair"
    /\ res.r = "ok"
    /\ Len(getDevices) = 2
    /\ timers # EmptyBag
    /\ res.v = << EncodePublicKey(GetKey("cameraPublicKey")[1]) >>

\* C7: pair with a key that is not exactly 32 bytes is rejected as
\* InvalidKey; no device is added and the code stays as it was
C7_WrongLengthRejected ==
    [][\A p \in Callers, req \in KeyKindRequests :
          /\ req.devicePublicKey.b64
          /\ req.devicePublicKey.key.len # KeySize
          /\ PairDevice(p, req)
          => /\ res'.r = "InvalidKey"
             /\ UNCHANGED <<code, data, file, mu, inPair, pairsOnCode>>]_vars

\* a key of the wrong length was refused while a code was active
C7_Witness ==
    /\ res.op = "pair"
    /\ res.r = "InvalidKey"
    /\ code # <<>>
    /\ ~Expired(code[1])

Unique(devs) == \A i, j \in DOMAIN devs : devs[i].id = devs[j].id => i = j

\* C8: no two records of connectedDevices, in memory or in the file, share
\* a device ID
C8_UniqueIDs == Unique(getDevices) /\ Unique(file.connectedDevices)

\* a pair succeeded beside another device while kick timers of both devices
\* are pending, one of them fired
C8_Witness ==
    /\ res.op = "pair"
    /\ res.r = "ok"
    /\ Len(getDevices) = 2
    /\ \E t, u \in TimerSet : t.id # u.id /\ t.st = "fired"

\* the kicks of id whose callback has not run
KicksPending(bag, id) == CopiesIn(id, BagOfAll(LAMBDA t : t.id, bag))

\* the step is Devices.Remove(id), called by handleRemoveDevice
IsRemove(id) ==
    \E env \in HonestEnvelopes :
       env.type = "removeDevice" /\ env.deviceId = id /\ RelayMessage(env, TRUE)

\* C9: a kick timer runs for kickDelay minutes and time does not pass its
\* deadline before its callback ran; only remove(id) takes a pending kick
\* of id away; the callback leaves id absent and every other device in place
C9_KickAfterDelay ==
    /\ [](\A t \in TimerSet :
             /\ now <= t.deadline
             /\ t.deadline <= now + kickDelay
             /\ t.st = "fired" => t.deadline = now)
    /\ [][/\ \A t \in TimerSet :
                KickCallback(t, TRUE) =>
                   /\ t.deadline = now
                   /\ t.id \notin IDs(getDevices')
                   /\ getDevices' = Filtered(getDevices, t.id)
                   /\ IDs(getDevices') = IDs(getDevices) \ {t.id}
          /\ \A id \in DeviceIds :
                KicksPending(timers', id) < KicksPending(timers, id) =>
                   \/ \E t \in TimerSet : t.id = id /\ KickCallback(t, TRUE)
                   \/ IsRemove(id)]_vars

\* the kick of d1 ran: d1 is gone, d2 is still there
C9_Witness ==
    /\ res.op = "kickCallback"
    /\ res.v = << "d1" >>
    /\ IDs(getDevices) = {"d2"}
    /\ timers = EmptyBag

\* C10: after remove(id) no timer created before the remove is pending for
\* id, and the callback of such a timer removes no device
C10_RemoveCancelsKick ==
    /\ [](\A t \in TimerSet : ~t.removed)
    /\ [][\A t \in TimerSet :
             t.removed /\ KickCallback(t, TRUE) => getDevices' = getDevices]_vars

\* C11: at most one kick of a device is pending at any moment, and every
\* pending timer is the one kickTimers holds for its device
C11_OnePendingKick ==
    /\ \A id \in DeviceIds : KicksPending(timers, id) <= 1
    /\ \A t \in TimerSet : t.inMap

\* the records of a list
Records(devs) == {devs[i] : i \in DOMAIN devs}

\* the relay message being delivered reaches the handler of type
Handled(type) ==
    /\ Deliver
    /\ msg[1].via = "relay"
    /\ msg[1].m.type = type
    /\ res'.r = "handled"

\* C12: a removeDevice command takes the record of its authenticated sender
\* out of the registry, whatever the payload names, and leaves every other
\* record as it was
C12_RemoveOnlySelf ==
    [][Handled("removeDevice") =>
          /\ Records(getDevices') = {d \in Records(getDevices) : d.id # msg[1].m.deviceId}
          /\ Records(file'.connectedDevices) =
                {d \in Records(file.connectedDevices) : d.id # msg[1].m.deviceId}]_vars

\* d1 removed itself: d2 and the pending kick of d2 are still there
C12_Witness ==
    /\ res.op = "relay"
    /\ res.r = "handled"
    /\ IDs(getDevices) = {"d2"}
    /\ \E t \in TimerSet : t.id = "d2"
    /\ ~ \E t \in TimerSet : t.id = "d1"

\* the timers of a bag other than those of device id
TimersNotOf(bag, id) == {t \in BagToSet(bag) : t.id # id}

\* C13: kickDevice naming the sender itself answers "Cannot kick self!" and
\* leaves the timers alone; naming another device it arms one timer of
\* kickDelay minutes for that device and touches no timer of any other
C13_KickOthersOnly ==
    [][Handled("kickDevice") =>
          LET caller == msg[1].m.deviceId
              target == msg[1].m.encryptedPayload.plain.targetDeviceId
          IN  IF target = caller
              THEN /\ res'.v = << "Cannot kick self!" >>
                   /\ timers' = timers
              ELSE /\ res'.v = << "success" >>
                   /\ KicksPending(timers', target) = 1
                   /\ \E t \in BagToSet(timers') :
                         /\ t.id = target
                         /\ t.deadline = now + kickDelay
                         /\ t.st = "armed"
                   /\ TimersNotOf(timers', target) = TimersNotOf(timers, target)
                   /\ KicksPending(timers', caller) = KicksPending(timers, caller)]_vars

\* a self kick was refused while a kick of the other device was pending
C13_Witness ==
    /\ res.op = "relay"
    /\ res.v = << "Cannot kick self!" >>
    /\ timers # EmptyBag

\* C14: the viewer set never holds more than maxViewers devices; addViewer
\* fails exactly when the set holds maxViewers, a failed addViewer leaves the
\* set as it was and a successful one adds its device
C14_ViewerCap ==
    /\ [](Cardinality(viewers) <= maxViewers)
    /\ [][\A id \in ViewerIds :
             addViewer(id) =>
                /\ res'.r = "viewer limit reached" <=> Cardinality(viewers) = maxViewers
                /\ res'.r = "viewer limit reached" => viewers' = viewers
                /\ res'.r = "ok" => viewers' = viewers \cup {id}]_vars

\* a fourth device was refused while three are viewers
C14_Witness ==
    /\ res.op = "addViewer"
    /\ res.r = "viewer limit reached"
    /\ Cardinality(viewers) = maxViewers
    /\ res.v[1] \notin viewers

\* C15: after a startStream or stopStream the capture pipeline runs iff the
\* viewer set is non-empty; a startStream while it runs succeeds; a stopStream that leaves other
\* viewers keeps it running
C15_PipelineIffViewers ==
    /\ [](\/ res.op = "startStream" /\ res.r = "ok"
          \/ res.op = "stopStream"
          => (streaming <=> viewers # {}))
    /\ [][\A id \in ViewerIds :
             /\ handleStartStream(id, TRUE) /\ streaming => res'.r = "ok"
             /\ handleStopStream(id) /\ viewers \ {id} # {} => streaming']_vars

\* C17: Decrypt of what Encrypt returned, by the same session, is the
\* plaintext; by a session with another key it is an error; Decrypt of a
\* text shorter than the nonce or not base64 is an error; an error comes
\* with no plaintext.
C17_SealOpen ==
    [][\A session \in SessionKeys :
          DecryptCall(session) =>
             LET sent == msg[1]
                 out == res'.v[2]
             IN  /\ sent.intact /\ session = sent.key => out = << sent.plain >> /\ res'.r = "ok"
                 /\ sent.intact /\ session # sent.key => out = <<>>
                 /\ sent.m.size < NonceSize \/ ~sent.m.wire => out = <<>>
                 /\ out = <<>> <=> res'.r = "error"]_vars

\* the empty plaintext was sealed and opened by its own session
C17_Witness ==
    /\ msg # <<>>
    /\ res.op = "Decrypt"
    /\ msg[1].intact
    /\ Size(msg[1].plain) = 0
    /\ res.v[1] = msg[1].key
    /\ res.v[2] = << msg[1].plain >>

\* the relay client is OPEN: a connect loop reads from the open socket of
\* RelayComm.conn
Open ==
    /\ conn # 0
    /\ socks[conn].open
    /\ \E l \in LoopIds : loops[l].pc = "read" /\ loops[l].sock = conn

LiveLoops == {l \in LoopIds : Live(l)}

OpenSocks == {k \in SockIds : socks[k].open}

\* C16: when the read from the relay connection fails, the viewer set is
\* emptied and the capture pipeline is stopped, so that no viewer of before
\* the loss is registered when the client has reconnected.
C16_LossClearsViewers ==
    [][\A l \in LoopIds :
          LoopReadError(l) /\ loops[l].sock = conn
             => viewers' = {} /\ ~streaming']_vars

\* C18: a Start while the client is running fails with "already running"
\* and starts no loop; there is never more than one connect loop and never
\* more than one open relay connection.
C18_SingleLoop ==
    /\ [](Cardinality(LiveLoops) <= 1 /\ Cardinality(OpenSocks) <= 1)
    /\ [][running /\ (\E dom \in RelayDomains : BleSetRelay(dom, TRUE))
             => res'.r = "already running" /\ loops' = loops /\ starting' = starting]_vars

C20_Reconnects ==
    /\ [][\A l \in LoopIds :
             /\ LoopDial(l) /\ ~reachable
                   => loops'[l].pc = "sleep" /\ loops'[l].wait = reconnectDelay
             /\ LoopReadError(l)
                   => loops'[l].pc = "sleep" /\ loops'[l].wait = reconnectDelay
             /\ loops[l].pc = "sleep" /\ loops'[l].pc # "sleep"
                   => loops[l].wait = 0 /\ loops'[l].pc = "select"
             /\ loops[l].pc = "sleep" /\ loops'[l].wait # loops[l].wait
                   => loops'[l].wait = loops[l].wait - 1
             /\ loops[l].pc = "select" /\ loops'[l] # loops[l] => loops'[l].pc = "dial"
             /\ Live(l) => loops'[l].pc # "none"]_vars
    /\ <>[]reachable => [](running => <>Open)

\* a loop that slept after a failure reads from the open connection again
C20_Witness ==
    /\ Open
    /\ \E l \in LoopIds : loops[l].retried /\ loops[l].pc = "read" /\ loops[l].sock = conn

\* C21: a Send while the relay connection is down, before the first
\* successful dial or between a drop and the next successful dial, fails
\* with "not connected"; no Send holds a message back for later.
C21_SendWhileDown ==
    [][Send /\ ~(conn # 0 /\ socks[conn].open)
          => res'.r = "not connected" /\ UNCHANGED relayVars]_vars

\* the step is a relay message passing through the router (a pair call
\* in progress takes or releases Pairing.mu)
RouterStep ==
    /\ res'.op \in {"relay", "startStream", "stopStream"}
    /\ UNCHANGED <<mu, inPair>>

\* the router called the handler of the message
Dispatched ==
    \/ res'.op = "relay" /\ res'.r = "handled"
    \/ res'.op \in {"startStream", "stopStream"}

\* the types of the handlers' replies
ResultTypes ==
    {"devicesResult", "removeDeviceResult", "kickDeviceResult", "wifiScanResult",
     "wifiConnectResult", "startStreamResult", "stopStreamResult"}

\* C22: every command dispatched to a handler produces exactly one encrypted
\* reply of a *Result type, whatever the decrypted payload
C22_OneEncryptedReply ==
    [][RouterStep /\ Dispatched =>
          /\ Len(replies') = 1
          /\ replies'[1].encrypted
          /\ replies'[1].type \in ResultTypes]_vars

\* C23: for every inbound envelope the router invokes the handler or sends
\* exactly one {type}Result error reply, and no router failure terminates
\* the process or touches the relay connection
C23_RouterNeverFatal ==
    [][RouterStep =>
          /\ Alive'
          /\ Dispatched \/ (Len(replies') = 1 /\ replies'[1].type = "{type}Result")
          /\ UNCHANGED relayVars]_vars

\* scenario S2: an envelope d1 sealed for the camera, naming d1 inside,
\* resubmitted with the outer deviceId of d2
S2Envelope(env) ==
    /\ env.parses
    /\ env.deviceId = "d2"
    /\ env.encryptedPayload.wire
    /\ env.encryptedPayload.key[2] = Point(OwnKey("d1").enc)
    /\ env.encryptedPayload.plain.json
    /\ env.encryptedPayload.plain.deviceId = "d1"

\* d1 and d2 are paired and the envelope is accepted when d1 sends it
S2Paired(env) ==
    /\ GetByID("d2") # <<>>
    /\ useEncryption([env EXCEPT !.deviceId = "d1"]) = "handled"

\* the router handles the resubmitted envelope in msg
S2Replay ==
    /\ Deliver
    /\ msg[1].via = "relay"
    /\ S2Envelope(msg[1].m)
    /\ S2Paired(msg[1].m)

\* d2 registered an encoding of the point d1 registered
S2SameKey ==
    Point(GetByID("d2")[1].publicKey.enc) = Point(GetByID("d1")[1].publicKey.enc)

C27_EncryptedWhenKeyed ==
    \A i \in DOMAIN replies :
        /\ replies[i].body \in {"Device not paired!", "Camera not initialized!",
                                "Device ID mismatch!"} => ~replies[i].encrypted
        /\ replies[i].body = "Invalid payload format!" => replies[i].encrypted
        /\ replies[i].type # "{type}Result" => replies[i].encrypted

\* C24: once a relay URL or domain is stored, no set-relay request on
\* either carrier changes the stored value
C24_RelaySetOnce ==
    [][/\ GetKey("relayUrl") # <<>> => data'.relayUrl = data.relayUrl
       /\ GetKey("relayDomain") # <<>> => data'.relayDomain = data.relayDomain]_vars

\* C25: a set-wifi or set-relay request, over HTTP or BLE, whose sender is
\* not paired, whose payload does not open under the sender's key or whose
\* inner deviceId differs from the outer one reaches no handler, stores
\* nothing and starts nothing
C25_SettingsOnlyIfAuthentic ==
    [][(Deliver \/ BleDeliver(TRUE)) /\ msg[1].via \in {"http", "ble"} =>
          LET req == msg[1].m
              authentic == /\ req.parses
                           /\ Registered(req.deviceId)
                           /\ OpensFor(req.encryptedPayload, req.deviceId)
                           /\ req.encryptedPayload.plain.json
                           /\ req.encryptedPayload.plain.deviceId = req.deviceId
          IN  ~authentic => /\ res'.r # "handled"
                            /\ UNCHANGED <<data, file, starting>>]_vars

\* the goroutines inside a write to the socket
Writing == {t \in Tasks : tasks[t] = "writing"}

\* C28: no two frame writes to the relay socket overlap, be they handler
\* replies, stream chunk broadcasts or pings
C28_WritesSerialized == Cardinality(Writing) <= 1

\* C29: the handlers of two frames begin in the order the frames were read:
\* when the handler of the second frame begins, the handler of the first
\* has begun
C29_ReceiptOrder ==
    [][tasks["f2"] = "spawned" /\ tasks'["f2"] # "spawned" =>
          tasks["f1"] \notin {"unread", "spawned"}]_vars

\* C30: get_code returns the active code, expiry untouched, on every call
\* before expiry and before a successful pair; after expiry or a successful
\* pair it returns a newly generated code that expires codeExpiry minutes
\* from now; a pair call passes the code check only with the one stored
\* code
C30_GetCodeIdempotent ==
    /\ [][\A c \in Codes : GetCode(c) =>
             /\ (code # <<>> /\ now < code[1].ExpiresAt) =>
                    code' = code /\ res'.v = << code[1].Code >>
             /\ (code = <<>> \/ now > code[1].ExpiresAt) =>
                    /\ code' = << [Code |-> c, ExpiresAt |-> now + codeExpiry] >>
                    /\ res'.v = << c >>]_vars
    /\ [][\A p \in Callers, req \in KeyKindRequests :
             PairDevice(p, req) /\ inPair'[p] # inPair[p] =>
                 code # <<>> /\ req.code = code[1].Code]_vars

\* a device is paired, the code generated after that pair has aged, and
\* get_code has just returned it again with its expiry untouched
C30_Witness ==
    /\ res.op = "getCode"
    /\ getDevices # <<>>
    /\ code # <<>>
    /\ res.v = << code[1].Code >>
    /\ now < code[1].ExpiresAt
    /\ code[1].ExpiresAt < now + codeExpiry
    /\ pairsOnCode = 0

\* C31: add for an id already in the registry replaces that record at its
\* position and leaves every other record where it was; for a new id it
\* appends the record
C31_ReplaceInPlace ==
    [][PairCommit("http", 1, AllOk) /\ res'.r = "ok" =>
          LET id  == inPair["http"][1].deviceID
              old == getDevices
              new == data'.connectedDevices
          IN  IF id \in IDs(old)
              THEN /\ Len(new) = Len(old)
                   /\ \A i \in DOMAIN old : IF old[i].id = id THEN new[i].id = id
                                                              ELSE new[i] = old[i]
              ELSE /\ Len(new) = Len(old) + 1
                   /\ SubSeq(new, 1, Len(old)) = old
                   /\ new[Len(new)].id = id]_vars

\* C32: whenever a step has set a config key, with or without a write error,
\* the in-memory map equals the content of the file, so a registry change
\* whose write failed is not seen by a later GetByID
C32_MemoryEqualsFile ==
    [][data' # data => /\ data' = file'
                       /\ \A id \in DeviceIds :
                              (GetByID(id) # <<>>)' =
                                  (id \in IDs(file'.connectedDevices))]_vars

\* C33: a pair during whose commit a config write fails returns an error,
\* does not add the device and leaves the records of the devices paired
\* before as they were
C33_FailedWriteAddsNothing ==
    [][failures' > failures /\ res'.op = "pair" =>
          /\ res'.r # "ok"
          /\ data'.connectedDevices = data.connectedDevices]_vars

\* the messages a reader that has made k non-empty reads has emitted for
\* them: chunkIndex 0, 1, ..., k-1
S34Chunks(k) == [i \in 1..k |-> [success |-> TRUE, done |-> FALSE, chunkIndex |-> i - 1]]

\* C34: each stream reader emits chunkIndex 0, 1, 2, ... increasing by one per
\* non-empty read, then at EOF exactly one {success: true, done: true} or on a
\* read error exactly one {success: false, done: true}, and nothing after
\* it; the counter goes back to 0 only when the pipeline is started again
C34_ReaderProtocol ==
    /\ [](\A e \in Readers :
            LET r == readers[e]
            IN  IF r.pc = "returned"
                THEN /\ Len(r.out) = r.chunkIndex + 1
                     /\ SubSeq(r.out, 1, r.chunkIndex) = S34Chunks(r.chunkIndex)
                     /\ r.out[Len(r.out)].done
                ELSE r.out = S34Chunks(r.chunkIndex))
    /\ [][\A e \in Readers :
            /\ readers[e].pc = "returned" /\ readers'[e].pc = "returned"
                   => readers'[e] = readers[e]
            /\ readers'[e].chunkIndex < readers[e].chunkIndex
                   => ~streaming /\ streaming' /\ readers'[e] = NewReader
            /\ readers'[e].chunkIndex > readers[e].chunkIndex
                   => /\ res'.op = "StreamReader"
                      /\ readers'[e].chunkIndex = readers[e].chunkIndex + 1]_vars

\* a reader has emitted two chunks and then the done message of EOF
C34_Witness ==
    /\ readers["video"].pc = "returned"
    /\ readers["video"].chunkIndex = 2
    /\ readers["video"].out[3].success

\* C35: every device in the viewer set is in the device registry, so no
\* chunk is sealed for or sent to a device that removeDevice or a fired kick
\* has removed
C35_ViewersRegistered == viewers \subseteq IDs(getDevices)

\* C36: pairing state survives a restart: with the config file a run that
\* paired devices has left, a command of a paired device is decrypted and
\* dispatched, and a new successful pair returns the persisted
\* cameraPublicKey
C36_SurvivesRestart ==
    [][/\ \A env \in HonestEnvelopes :
              env.deviceId \in IDs(getDevices) /\ RelayMessage(env, TRUE)
                  => res'.r = "handled"
       /\ file.cameraPublicKey # <<>> /\ PairCommit("http", 1, AllOk)
              => /\ res'.r = "ok"
                 /\ res'.v = << EncodePublicKey(file.cameraPublicKey[1]) >>]_vars

\* C37: every code GetCode produces is a string of exactly six decimal
\* digits, for every output of the random source and both widths of int
C37_SixDigits ==
    \A i \in DOMAIN code :
        /\ Len(code[i].Code) = 6
        /\ \A j \in DOMAIN code[i].Code :
               code[i].Code[j] \in {"0", "1", "2", "3", "4", "5", "6", "7", "8", "9"}

\* the StartUpdate calls that are downloading or flashing
S38InProgress == {c \in UpdateCalls : updater.calls[c] \in {"downloading", "installing"}}

\* C38: at most one firmware update is in progress at any time, and a
\* CheckForUpdates that runs while an update is downloading or installing
\* does not move the status back to up-to-date or update-available
C38_OneUpdate ==
    /\ [](Cardinality(S38InProgress) <= 1)
    /\ [][res'.op = "CheckForUpdates" /\ updater.status \in {"downloading", "installing"}
             => updater'.status \notin {"up-to-date", "update-available"}]_vars

\* C40: after an update has set the boot counter, the watchdog switches back
\* only after MaxBootAttempts consecutive boot attempts of the new firmware
\* without ConfirmSuccessfulBoot, and never once a boot has been confirmed:
\* the counter is then absent
C40_RollbackAfterMaxAttempts ==
    /\ [](boot.confirmed => boot.counter = <<>>)
    /\ [][res'.op = "watchdog" /\ res'.r = "rollback" /\ boot.phase = "watchdog"
             => boot.attempts >= MaxBootAttempts /\ ~boot.confirmed]_vars

\* C39: at most one keep-alive loop of the relay client is running at any
\* time, however often the connection is dropped and dialed again
C39_OnePingLoop == pings <= 1

====
